---------------------------- MODULE Spec2Model ----------------------------
(***************************************************************************)
(* HypePlot: the time-bucket generator (utils/date_utils.py), the CLI      *)
(* driver (hype.py), the get_range sessions of the generic adapters        *)
(* (sources/*.py), the download counts of sources/packages.py and the      *)
(* cached, retrying fetch of sources/trends.py.                            *)
(*                                                                         *)
(* A datetime is modelled as the pair kept by Python's datetime            *)
(* arithmetic: the proleptic Gregorian ordinal of its day and the second   *)
(* within that day.  Labels are real strings, built as strftime and the    *)
(* f-strings build them.                                                   *)
(***************************************************************************)
EXTENDS Integers, Sequences, FiniteSets, TLC

---------------------------------------------------------------------------
(* Bounds of the model *)

\* last year start_year / end_year are drawn from
LastYear == 2025
\* largest N of a 'days:N' bucket spec
MaxBucketDays == 400
\* most names given with --source
MaxSources == 2

\* the years of a run: from the leap year 2024 on
Years == 2024 .. LastYear

---------------------------------------------------------------------------
(* datetime / timedelta as date_utils.py uses them *)

SecondsPerDay == 24 * 60 * 60

IsLeap(y) == (y % 4 = 0) /\ ((y % 100 # 0) \/ (y % 400 = 0))

\* the calendar's length of month m of year y
DaysInMonth(y, m) ==
    IF m = 2 THEN (IF IsLeap(y) THEN 29 ELSE 28)
    ELSE IF m \in {4, 6, 9, 11} THEN 30 ELSE 31

\* days in the months of a non-leap year before month m
DaysBeforeMonthCommon(m) ==
    <<0, 31, 59, 90, 120, 151, 181, 212, 243, 273, 304, 334>>[m]

DaysBeforeMonth(y, m) ==
    DaysBeforeMonthCommon(m) + (IF m > 2 /\ IsLeap(y) THEN 1 ELSE 0)

DaysBeforeYear(y) ==
    LET p == y - 1 IN p * 365 + (p \div 4) - (p \div 100) + (p \div 400)

\* date.toordinal(): 1 for 0001-01-01
Ymd2Ord(y, m, d) == DaysBeforeYear(y) + DaysBeforeMonth(y, m) + d

\* the (year, month, day) of an ordinal, by the 400/100/4/1-year cycles
Ord2Ymd(ordinal) ==
    LET n0   == ordinal - 1
        n400 == n0 \div 146097
        r400 == n0 % 146097
        n100 == r400 \div 36524
        r100 == r400 % 36524
        n4   == r100 \div 1461
        r4   == r100 % 1461
        n1   == r4 \div 365
        n    == r4 % 365
        yr   == n400 * 400 + 1 + n100 * 100 + n4 * 4 + n1
        leap == (n1 = 3) /\ ((n4 # 24) \/ (n100 = 3))
        lp(mm) == IF mm > 2 /\ leap THEN 1 ELSE 0
        m0   == (n + 50) \div 32
        pre0 == DaysBeforeMonthCommon(m0) + lp(m0)
        mon  == IF pre0 > n THEN m0 - 1 ELSE m0
        pre  == DaysBeforeMonthCommon(mon) + lp(mon)
    IN  IF n1 = 4 \/ n100 = 4
        THEN [year |-> yr - 1, month |-> 12, day |-> 31]
        ELSE [year |-> yr, month |-> mon, day |-> n - pre + 1]

\* datetime(year, month, day, hour, minute, second)
datetime(y, m, d, hh, mi, ss) ==
    [ord |-> Ymd2Ord(y, m, d), sec |-> hh * 3600 + mi * 60 + ss]

\* timedelta(days=..., hours=..., minutes=..., seconds=...)
timedelta(dd, hh, mi, ss) ==
    LET s == hh * 3600 + mi * 60 + ss
    IN  [days |-> dd + (s \div SecondsPerDay), seconds |-> s % SecondsPerDay]

\* datetime + timedelta
DtAdd(dt, td) ==
    LET s == dt.sec + td.seconds
    IN  [ord |-> dt.ord + td.days + (s \div SecondsPerDay), sec |-> s % SecondsPerDay]

\* datetime - timedelta
DtSub(dt, td) ==
    LET s == dt.sec - td.seconds
    IN  [ord |-> dt.ord - td.days + (s \div SecondsPerDay), sec |-> s % SecondsPerDay]

\* datetime <= datetime
DtLe(a, b) == (a.ord < b.ord) \/ (a.ord = b.ord /\ a.sec <= b.sec)

\* min(a, b) of two datetimes
DtMin(a, b) == IF DtLe(b, a) /\ b # a THEN b ELSE a

YearOf(dt)  == Ord2Ymd(dt.ord).year
MonthOf(dt) == Ord2Ymd(dt.ord).month
DayOf(dt)   == Ord2Ymd(dt.ord).day

\* "%02d" of a number below 100
Pad2(n) == IF n < 10 THEN "0" \o ToString(n) ELSE ToString(n)

\* strftime("%Y-%m")
StrfYm(dt) == ToString(YearOf(dt)) \o "-" \o Pad2(MonthOf(dt))

\* strftime("%Y-%m-%d")
StrfYmd(dt) == StrfYm(dt) \o "-" \o Pad2(DayOf(dt))


---------------------------------------------------------------------------
(* The --bucket argument: a string, modelled as the sequence of its        *)
(* characters                                                              *)

DigitChars == <<"0", "1", "2", "3", "4", "5", "6", "7", "8", "9">>

\* the value of a decimal digit character, -1 for any other character
DigitValue(c) ==
    IF \E i \in 1..10 : DigitChars[i] = c
    THEN (CHOOSE i \in 1..10 : DigitChars[i] = c) - 1
    ELSE -1

\* str(n) for n >= 0, as characters
RECURSIVE IntChars(_)
IntChars(n) ==
    IF n < 10 THEN <<DigitChars[n + 1]>>
    ELSE IntChars(n \div 10) \o <<DigitChars[(n % 10) + 1]>>

StrYearly    == <<"y", "e", "a", "r", "l", "y">>
StrMonthly   == <<"m", "o", "n", "t", "h", "l", "y">>
StrQuarterly == <<"q", "u", "a", "r", "t", "e", "r", "l", "y">>
StrDaysColon == <<"d", "a", "y", "s", ":">>

\* the spec 'days:N'
DaysSpec(n) == StrDaysColon \o IntChars(n)

\* s.startswith(p)
StartsWith(s, p) == Len(s) >= Len(p) /\ SubSeq(s, 1, Len(p)) = p

\* s.split(":", 1)[1] for an s that holds a colon
AfterFirstColon(s) ==
    LET i == CHOOSE k \in 1..Len(s) :
                 s[k] = ":" /\ \A j \in 1..(k - 1) : s[j] # ":"
    IN  SubSeq(s, i + 1, Len(s))

\* s.strip() of blanks
RECURSIVE Strip(_)
Strip(s) ==
    IF s = <<>> THEN s
    ELSE IF Head(s) = " " THEN Strip(Tail(s))
    ELSE IF s[Len(s)] = " " THEN Strip(SubSeq(s, 1, Len(s) - 1))
    ELSE s

\* the value of a run of digits, single underscores allowed between digits;
\* -1 when the run is not a number
RECURSIVE DigitsValue(_, _, _)
DigitsValue(s, acc, afterDigit) ==
    IF s = <<>> THEN (IF afterDigit THEN acc ELSE -1)
    ELSE IF Head(s) = "_"
         THEN (IF afterDigit THEN DigitsValue(Tail(s), acc, FALSE) ELSE -1)
    ELSE IF DigitValue(Head(s)) < 0 THEN -1
    ELSE DigitsValue(Tail(s), acc * 10 + DigitValue(Head(s)), TRUE)

\* int(s): [ok |-> FALSE] stands for ValueError
IntOf(s) ==
    LET t    == Strip(s)
        neg  == t # <<>> /\ Head(t) = "-"
        body == IF t # <<>> /\ Head(t) \in {"-", "+"} THEN Tail(t) ELSE t
        v    == DigitsValue(body, 0, FALSE)
    IN  IF v < 0 THEN [ok |-> FALSE, val |-> 0]
        ELSE [ok |-> TRUE, val |-> IF neg THEN 0 - v ELSE v]

\* mutant of ParseBucket: N of 'days:N' is not tested for being positive
ParseBucketAnyInt(b) ==
    IF StartsWith(b, StrDaysColon)
    THEN LET n == IntOf(AfterFirstColon(b))
         IN  IF n.ok THEN [ok |-> TRUE, days |-> n.val]
             ELSE [ok |-> FALSE, days |-> 0]
    ELSE IF b = StrYearly    THEN [ok |-> TRUE, days |-> 365]
    ELSE IF b = StrMonthly   THEN [ok |-> TRUE, days |-> 30]
    ELSE IF b = StrQuarterly THEN [ok |-> TRUE, days |-> 90]
    ELSE [ok |-> FALSE, days |-> 0]

\* run_hypeplot's reading of the bucket spec: [ok |-> FALSE] is "return 1"
ParseBucket(b) ==
    IF StartsWith(b, StrDaysColon)
    THEN LET n == IntOf(AfterFirstColon(b))
         IN  IF n.ok /\ n.val > 0 THEN [ok |-> TRUE, days |-> n.val]
             ELSE [ok |-> FALSE, days |-> 0]
    ELSE IF b = StrYearly    THEN [ok |-> TRUE, days |-> 365]
    ELSE IF b = StrMonthly   THEN [ok |-> TRUE, days |-> 30]
    ELSE IF b = StrQuarterly THEN [ok |-> TRUE, days |-> 90]
    ELSE [ok |-> FALSE, days |-> 0]

\* the bucket specs the generator is run with
GenBucketSpecs ==
    {StrYearly, StrMonthly, StrQuarterly} \cup {DaysSpec(n) : n \in 1..MaxBucketDays}

---------------------------------------------------------------------------
(* generate_date_buckets *)

VARIABLES
    bucket,         \* the --bucket spec the width came from
    start_year,     \* argument
    end_year,       \* argument
    bucket_days,    \* argument
    pc,             \* where the generator stands
    year,           \* next value of "for year in range(start_year, end_year + 1)"
    q,              \* next value of the quarter loop
    month,          \* next value of the month loop
    end_date,       \* local of the fixed-width branch
    current_start,  \* local
    current_end,    \* local
    label,          \* local
    out             \* the (start, end, label) tuples yielded so far

varsGen == <<bucket, start_year, end_year, bucket_days, pc, year, q, month,
             end_date, current_start, current_end, label, out>>

\* a local that is not assigned yet
Unset == [ord |-> 0, sec |-> 0]

\* which branch of generate_date_buckets a width takes
Branch(days) ==
    IF days = 365 \/ days = 366 THEN "yearly"
    ELSE IF days = 90 THEN "quarterly"
    ELSE IF days = 30 THEN "monthly"
    ELSE "custom"

quarter_starts == <<<<1, 1>>, <<4, 1>>, <<7, 1>>, <<10, 1>>>>
quarter_ends   == <<<<3, 31>>, <<6, 30>>, <<9, 30>>, <<12, 31>>>>

YearStart(y) == datetime(y, 1, 1, 0, 0, 0)

\* mutant of YearEnd: a year taken as 365 days, leap or not
YearEnd365Days(y) == DtAdd(datetime(y, 1, 1, 0, 0, 0), timedelta(364, 23, 59, 59))

YearEnd(y)   == datetime(y, 12, 31, 23, 59, 59)

\* mutant of QuarterStart: every quarter starts with the year
QuarterStartOfYear(y, n) == datetime(y, 1, 1, 0, 0, 0)

QuarterStart(y, n) == datetime(y, quarter_starts[n][1], quarter_starts[n][2], 0, 0, 0)
QuarterEnd(y, n)   == datetime(y, quarter_ends[n][1], quarter_ends[n][2], 23, 59, 59)

\* mutant of QuarterLabel: enumerate() left to count from 0
QuarterLabelFromZero(y, n) == ToString(y) \o "-Q" \o ToString(n - 1)

QuarterLabel(y, n) == ToString(y) \o "-Q" \o ToString(n)

MonthStart(y, m) == datetime(y, m, 1, 0, 0, 0)

\* mutant of MonthEnd: a month taken as 30 days
MonthEnd30Days(y, m) == DtAdd(datetime(y, m, 1, 0, 0, 0), timedelta(29, 23, 59, 59))

MonthEnd(y, m) ==
    IF m = 12 THEN datetime(y, 12, 31, 23, 59, 59)
    ELSE DtSub(datetime(y, m + 1, 1, 0, 0, 0), timedelta(0, 0, 0, 1))

\* mutant of CustomEnd: the last window is not cut at end_date
CustomEndUncut(cs, days, ed) == DtAdd(cs, timedelta(days - 1, 23, 59, 59))

\* line 82: the end of the fixed-width bucket that starts at cs
CustomEnd(cs, days, ed) ==
    DtMin(DtAdd(cs, timedelta(days - 1, 23, 59, 59)), ed)

\* mutant of CustomLabel: the years are not compared
CustomLabelMonthOnly(cs, ce) ==
    IF MonthOf(ce) = MonthOf(cs)
    THEN StrfYmd(cs)
    ELSE StrfYmd(cs) \o "_" \o StrfYmd(ce)

\* lines 85-88: the label of a fixed-width bucket
CustomLabel(cs, ce) ==
    IF YearOf(ce) = YearOf(cs) /\ MonthOf(ce) = MonthOf(cs)
    THEN StrfYmd(cs)
    ELSE StrfYmd(cs) \o "_" \o StrfYmd(ce)

\* mutant of CustomNext: a day is added where a second is meant
CustomNextDayLater(ce) == DtAdd(ce, timedelta(1, 0, 0, 0))

\* mutant of CustomNext: the second is not added
CustomNextSame(ce) == ce

\* line 92: where the next fixed-width bucket starts
CustomNext(ce) == DtAdd(ce, timedelta(0, 0, 0, 1))

\* format_bucket_label(start, end, bucket_days)
format_bucket_label(s, e, days) ==
    IF days = 365 \/ days = 366 THEN ToString(YearOf(s))
    ELSE IF days = 30 THEN StrfYm(s)
    ELSE IF days = 90
         THEN ToString(YearOf(s)) \o "-Q" \o ToString(((MonthOf(s) - 1) \div 3) + 1)
    ELSE IF YearOf(e) = YearOf(s) /\ MonthOf(e) = MonthOf(s)
         THEN StrfYmd(s)
         ELSE StrfYmd(s) \o "_" \o StrfYmd(e)

\* year_to_bucket_count: the days from Jan 1 of start_year to Dec 31 of
\* end_year, divided by the width, rounded up
year_to_bucket_count(sy, ey, days) ==
    LET start_date == datetime(sy, 1, 1, 0, 0, 0)
        end_dt     == datetime(ey, 12, 31, 0, 0, 0)
        total_days == (end_dt.ord - start_date.ord) + 1
    IN  (total_days + days - 1) \div days

Yielded(s, e, l) == [start |-> s, end |-> e, label |-> l]

InitGen ==
    /\ bucket \in GenBucketSpecs
    /\ bucket_days = ParseBucket(bucket).days
    /\ start_year \in Years
    /\ end_year \in Years
    /\ pc = "call"
    /\ year = 0
    /\ q = 0
    /\ month = 0
    /\ end_date = Unset
    /\ current_start = Unset
    /\ current_end = Unset
    /\ label = ""
    /\ out = <<>>

\* first next(): run to the head of the loop of the width's branch
Call ==
    /\ pc = "call"
    /\ pc' = Branch(bucket_days)
    /\ IF Branch(bucket_days) = "custom"
       THEN /\ end_date' = YearEnd(end_year)
            /\ current_start' = YearStart(start_year)
            /\ UNCHANGED <<year, q, month>>
       ELSE /\ year' = start_year
            /\ q' = IF Branch(bucket_days) = "quarterly" THEN 1 ELSE q
            /\ month' = IF Branch(bucket_days) = "monthly" THEN 1 ELSE month
            /\ UNCHANGED <<end_date, current_start>>
    /\ UNCHANGED <<bucket, start_year, end_year, bucket_days, current_end, label, out>>

YieldYear ==
    /\ pc = "yearly"
    /\ year <= end_year
    /\ current_start' = YearStart(year)
    /\ current_end' = YearEnd(year)
    /\ label' = ToString(year)
    /\ out' = Append(out, Yielded(current_start', current_end', label'))
    /\ year' = year + 1
    /\ UNCHANGED <<bucket, start_year, end_year, bucket_days, pc, q, month, end_date>>

YieldQuarter ==
    /\ pc = "quarterly"
    /\ year <= end_year
    /\ current_start' = QuarterStart(year, q)
    /\ current_end' = QuarterEnd(year, q)
    /\ label' = QuarterLabel(year, q)
    /\ out' = Append(out, Yielded(current_start', current_end', label'))
    /\ q' = IF q = Len(quarter_starts) THEN 1 ELSE q + 1
    /\ year' = IF q = Len(quarter_starts) THEN year + 1 ELSE year
    /\ UNCHANGED <<bucket, start_year, end_year, bucket_days, pc, month, end_date>>

YieldMonth ==
    /\ pc = "monthly"
    /\ year <= end_year
    /\ current_start' = MonthStart(year, month)
    /\ current_end' = MonthEnd(year, month)
    /\ label' = StrfYm(current_start')
    /\ out' = Append(out, Yielded(current_start', current_end', label'))
    /\ month' = IF month = 12 THEN 1 ELSE month + 1
    /\ year' = IF month = 12 THEN year + 1 ELSE year
    /\ UNCHANGED <<bucket, start_year, end_year, bucket_days, pc, q, end_date>>

\* mutant of YieldCustom: the loop tests its condition after the first pass
YieldCustomTestedLate ==
    /\ pc = "custom"
    /\ out = <<>> \/ DtLe(current_start, end_date)
    /\ current_end' = CustomEnd(current_start, bucket_days, end_date)
    /\ label' = CustomLabel(current_start, current_end')
    /\ out' = Append(out, Yielded(current_start, current_end', label'))
    /\ current_start' = CustomNext(current_end')
    /\ UNCHANGED <<bucket, start_year, end_year, bucket_days, pc, year, q, month, end_date>>

YieldCustom ==
    /\ pc = "custom"
    /\ DtLe(current_start, end_date)
    /\ current_end' = CustomEnd(current_start, bucket_days, end_date)
    /\ label' = CustomLabel(current_start, current_end')
    /\ out' = Append(out, Yielded(current_start, current_end', label'))
    /\ current_start' = CustomNext(current_end')
    /\ UNCHANGED <<bucket, start_year, end_year, bucket_days, pc, year, q, month, end_date>>

\* the calendar loops are exhausted: "return"
ReturnCalendar ==
    /\ pc \in {"yearly", "quarterly", "monthly"}
    /\ year > end_year
    /\ pc' = "done"
    /\ UNCHANGED <<bucket, start_year, end_year, bucket_days, year, q, month,
                   end_date, current_start, current_end, label, out>>

\* the while condition fails: the generator ends
ReturnCustom ==
    /\ pc = "custom"
    /\ ~DtLe(current_start, end_date)
    /\ pc' = "done"
    /\ UNCHANGED <<bucket, start_year, end_year, bucket_days, year, q, month,
                   end_date, current_start, current_end, label, out>>

---------------------------------------------------------------------------
(* main and run_hypeplot (hype.py) *)

VARIABLES
    argv,        \* the command line: --source, --format, --no-open, plot, start, end
    cli_pc,      \* where main / run_hypeplot stands
    sources,     \* the names given with --source (the code tests membership only)
    formats,     \* the formats in effect
    gen_idx,     \* position of the loop over generic_source_names
    results,     \* the manifest: the (source, kind) keys recorded
    dirs,        \* directories created
    files,       \* files written, as (source, kind)
    invoked,     \* the adapters called, in order
    opened,      \* charts opened in the browser
    exit_code    \* the process's exit status, -1 while it runs

varsCli == <<argv, cli_pc, sources, formats, gen_idx, results, dirs, files,
             invoked, opened, exit_code>>

\* one get_range session of a generic adapter (sources/*.py), run by
\* process_generic_source
VARIABLES
    env,         \* the credentials set in os.environ
    adapter,     \* the module whose get_range runs, "" when none does
    s_pc,        \* where process_generic_source / get_range stands
    today,       \* datetime.now() as news.get_range read it, Unset before
    rows,        \* get_range's "data" list
    log,         \* the requests sent and the sleeps taken, in order, per source
    failures,    \* the requests of this run that failed so far
    csv,         \* the tables save_csv wrote, by source
    cwd          \* the files get_range itself wrote, in the working directory

varsSess == <<env, adapter, s_pc, today, rows, log, failures, csv, cwd>>

\* one fetch_trends call (sources/trends.py)
VARIABLES
    t_pc,        \* where fetch_trends / _fetch_with_retries stands
    use_topic,   \* argument use_topic of fetch_trends
    memo,        \* the suggestions cache file holds the topic id of the term
    requested,   \* argument timeframe of fetch_trends
    force,       \* argument force of fetch_trends
    cached,      \* the cache files on disk, by the timeframe of their key
    timeframe,   \* the timeframe the running retry loop asks for
    loops,       \* the calls of _fetch_with_retries so far
    attempt,     \* the loop variable of _fetch_with_retries
    last_err,    \* _fetch_with_retries's last_err, "" for None
    df,          \* fetch_trends's df: its kind ("" before it is bound) and timeframe
    t_log,       \* the requests sent and the sleeps taken, in order
    t_result     \* what fetch_trends returned or raised, "" while it runs

varsTrends == <<t_pc, use_topic, memo, requested, force, cached, timeframe,
                loops, attempt, last_err, df, t_log, t_result>>

\* one get_range session of the package adapter against pypistats
VARIABLES
    response     \* the "data" list of the API's answer, the same for every request

varsPypi == <<response>>

vars == <<varsGen, varsCli, varsSess, varsTrends, varsPypi>>

\* get_available_sources(): the modules of sources/, sorted
AvailableSources ==
    <<"arxiv", "github", "grants", "news", "packages", "patents", "reddit",
      "scholar", "trends", "twitter", "youtube">>

valid_sources == {AvailableSources[i] : i \in 1..Len(AvailableSources)}
valid_formats == {"csv", "html", "png"}
special_sources == {"scholar", "trends"}

\* generic_source_names: the available sources without the special ones, in order
generic_source_names ==
    SelectSeq(AvailableSources, LAMBDA n : n \notin special_sources)

\* "-" in value
HasDash(s) == \E i \in 1..Len(s) : s[i] = "-"

\* the index of the first "-" of s at or after position k, 0 when there is none
FirstDashFrom(s, k) ==
    IF \E i \in k..Len(s) : s[i] = "-"
    THEN CHOOSE i \in k..Len(s) : s[i] = "-" /\ \A j \in k..(i - 1) : s[j] # "-"
    ELSE 0

\* all characters of s are decimal digits, and there are between lo and hi of them
IsDigits(s, lo, hi) ==
    /\ Len(s) \in lo..hi
    /\ \A i \in 1..Len(s) : DigitValue(s[i]) >= 0

\* datetime.strptime(value, "%Y-%m-%d").year: [ok |-> FALSE] stands for ValueError
StrptimeYmd(s) ==
    LET d1 == FirstDashFrom(s, 1)
        d2 == IF d1 = 0 THEN 0 ELSE FirstDashFrom(s, d1 + 1)
        ys == SubSeq(s, 1, d1 - 1)
        ms == SubSeq(s, d1 + 1, d2 - 1)
        ds == SubSeq(s, d2 + 1, Len(s))
        bad == [ok |-> FALSE, val |-> 0]
    IN  IF d1 = 0 \/ d2 = 0 THEN bad
        ELSE IF ~(IsDigits(ys, 4, 4) /\ IsDigits(ms, 1, 2) /\ IsDigits(ds, 1, 2)) THEN bad
        ELSE LET y == IntOf(ys).val
                 m == IntOf(ms).val
                 d == IntOf(ds).val
             IN  IF y >= 1 /\ m \in 1..12 /\ d >= 1 /\ d <= DaysInMonth(y, m)
                 THEN [ok |-> TRUE, val |-> y]
                 ELSE bad

\* parse_year_or_date(value): [ok |-> FALSE] stands for ValueError
parse_year_or_date(value) ==
    LET v == Strip(value)
    IN  IF HasDash(v) THEN StrptimeYmd(v)
        ELSE LET n == IntOf(v)
             IN  IF n.ok /\ n.val >= 1900 /\ n.val <= 2100 THEN n
                 ELSE [ok |-> FALSE, val |-> 0]

\* the format list main works with: --format when given, else by "plot"
EffectiveFormats(a) ==
    IF a.format.given THEN a.format.names
    ELSE IF a.plot THEN {"csv", "html", "png"} ELSE {"csv"}

\* the output directory of a source, outputs/<term_slug>/<source>
SourceDir(name) == "outputs/term/" \o name

\* the files a source leaves: the tabular file, the chart, the image
ChartFiles(name, fmts) ==
    (IF "html" \in fmts \/ "png" \in fmts THEN {<<name, "html">>} ELSE {})
        \cup (IF "png" \in fmts THEN {<<name, "png">>} ELSE {})

\* mutant of ManifestKeys: the csv key is recorded whenever the file is written
ManifestKeysCsvAlways(name, fmts) ==
    {<<name, "csv">>} \cup {<<name, k>> : k \in fmts \cap valid_formats}

\* the manifest keys a source records: '<source>_<kind>' for the requested kinds
ManifestKeys(name, fmts) == {<<name, k>> : k \in fmts \cap valid_formats}

\* the values of --source, --format and the positional arguments that are tried
SourceUniverse == {"arxiv", "github", "scholar", "trends", "jobs"}
FormatUniverse == {"csv", "html", "png", "pdf"}

\* positional start / end arguments: a year, a date; a year out of range, a
\* date that does not exist
GoodStartArgs == {<<"2", "0", "2", "4">>,
                  <<"2", "0", "2", "4", "-", "0", "6", "-", "1", "5">>}
BadStartArgs  == {<<"1", "8", "9", "9">>}
GoodEndArgs   == {<<"2", "0", "2", "5">>}
BadEndArgs    == {<<"2", "0", "2", "5", "-", "0", "2", "-", "3", "0">>}

StartArgs == GoodStartArgs \cup BadStartArgs
EndArgs   == GoodEndArgs \cup BadEndArgs

\* --bucket values that run_hypeplot must accept
GoodBucketSpecs ==
    {StrYearly, StrMonthly, StrQuarterly, DaysSpec(10), DaysSpec(30),
     <<"d", "a", "y", "s", ":", "0", "0", "7">>}

\* --bucket values that are configuration errors: an unknown word, days:N with
\* N not an integer, N zero or negative
BadBucketSpecs ==
    {<<"w", "e", "e", "k", "l", "y">>,
     <<"Y", "e", "a", "r", "l", "y">>,
     <<"d", "a", "y", "s">>,
     <<"d", "a", "y", "s", ":">>,
     <<"d", "a", "y", "s", ":", "0">>,
     <<"d", "a", "y", "s", ":", "-", "5">>,
     <<"d", "a", "y", "s", ":", "a", "b", "c">>,
     <<"d", "a", "y", "s", ":", "1", ".", "5">>,
     <<"d", "a", "y", "s", ":", "7", ":", "3">>}

GenIdle ==
    /\ pc = "idle"
    /\ year = 0
    /\ q = 0
    /\ month = 0
    /\ end_date = Unset
    /\ current_start = Unset
    /\ current_end = Unset
    /\ label = ""
    /\ out = <<>>

CliIdle ==
    /\ argv = [source |-> {}, format |-> [given |-> FALSE, names |-> {}],
               plot |-> FALSE, no_open |-> FALSE, start |-> <<>>, end |-> <<>>]
    /\ cli_pc = "idle"
    /\ sources = {}
    /\ formats = {}
    /\ gen_idx = 0
    /\ results = {}
    /\ dirs = {}
    /\ files = {}
    /\ invoked = <<>>
    /\ opened = <<>>
    /\ exit_code = -1

SessIdle ==
    /\ env = {}
    /\ adapter = ""
    /\ s_pc = "idle"
    /\ today = Unset
    /\ rows = <<>>
    /\ log = <<>>
    /\ failures = 0
    /\ csv = <<>>
    /\ cwd = {}

TrendsIdle ==
    /\ t_pc = "idle"
    /\ use_topic = FALSE
    /\ memo = FALSE
    /\ requested = ""
    /\ force = FALSE
    /\ cached = [tf \in {} |-> "none"]
    /\ timeframe = ""
    /\ loops = 0
    /\ attempt = 0
    /\ last_err = ""
    /\ df = [kind |-> "", tf |-> ""]
    /\ t_log = <<>>
    /\ t_result = ""

PypiIdle == response = <<>>

InitCli ==
    /\ \E src \in {x \in SUBSET SourceUniverse : Cardinality(x) \in 1..MaxSources},
          fmt \in SUBSET FormatUniverse,
          plt \in BOOLEAN,
          no \in BOOLEAN,
          sa \in StartArgs,
          ea \in EndArgs :
          /\ (fmt # {} => ~plt)
          /\ argv = [source |-> src,
                     format |-> [given |-> fmt # {}, names |-> fmt],
                     plot |-> plt, no_open |-> no, start |-> sa, end |-> ea]
    /\ bucket \in GoodBucketSpecs \cup BadBucketSpecs
    /\ bucket_days = 0
    /\ start_year = 0
    /\ end_year = 0
    /\ cli_pc = "parse_years"
    /\ sources = {}
    /\ formats = {}
    /\ gen_idx = 0
    /\ results = {}
    /\ dirs = {}
    /\ files = {}
    /\ invoked = <<>>
    /\ opened = <<>>
    /\ exit_code = -1
    /\ GenIdle
    /\ SessIdle
    /\ TrendsIdle
    /\ PypiIdle

\* main, lines 441-447
MainParseYears ==
    /\ cli_pc = "parse_years"
    /\ LET sy == parse_year_or_date(argv.start)
           ey == parse_year_or_date(argv.end)
       IN  IF sy.ok /\ ey.ok
           THEN /\ start_year' = sy.val
                /\ end_year' = ey.val
                /\ cli_pc' = "validate_sources"
                /\ UNCHANGED exit_code
           ELSE /\ cli_pc' = "exit"
                /\ exit_code' = 1
                /\ UNCHANGED <<start_year, end_year>>
    /\ UNCHANGED <<argv, sources, formats, gen_idx, results, dirs, files, invoked, opened>>
    /\ UNCHANGED <<bucket, bucket_days, pc, year, q, month, end_date, current_start,
                   current_end, label, out>>

\* main, lines 449-467
MainValidateSources ==
    /\ cli_pc = "validate_sources"
    /\ formats' = EffectiveFormats(argv)
    /\ sources' = argv.source
    /\ IF sources' \ valid_sources # {}
       THEN cli_pc' = "exit" /\ exit_code' = 1
       ELSE cli_pc' = "validate_formats" /\ UNCHANGED exit_code
    /\ UNCHANGED <<argv, gen_idx, results, dirs, files, invoked, opened>>
    /\ UNCHANGED varsGen

\* main, lines 469-477
MainValidateFormats ==
    /\ cli_pc = "validate_formats"
    /\ IF formats \ valid_formats # {}
       THEN cli_pc' = "exit" /\ exit_code' = 1
       ELSE cli_pc' = "parse_bucket" /\ UNCHANGED exit_code
    /\ UNCHANGED <<argv, sources, formats, gen_idx, results, dirs, files, invoked, opened>>
    /\ UNCHANGED varsGen

\* run_hypeplot, lines 180-209
RunParseBucket ==
    /\ cli_pc = "parse_bucket"
    /\ LET b == ParseBucket(bucket)
       IN  IF b.ok
           THEN /\ bucket_days' = b.days
                /\ results' = {}
                /\ cli_pc' = "scholar"
                /\ UNCHANGED exit_code
           ELSE /\ cli_pc' = "exit"
                /\ exit_code' = 1
                /\ UNCHANGED <<bucket_days, results>>
    /\ UNCHANGED <<argv, sources, formats, gen_idx, dirs, files, invoked, opened>>
    /\ UNCHANGED <<bucket, start_year, end_year, pc, year, q, month, end_date,
                   current_start, current_end, label, out>>

\* run_hypeplot, lines 211-247
RunScholar ==
    /\ cli_pc = "scholar"
    /\ cli_pc' = "trends"
    /\ IF "scholar" \in sources
       THEN /\ dirs' = dirs \cup {SourceDir("scholar")}
            /\ invoked' = Append(invoked, "scholar")
            /\ files' = files \cup {<<"scholar", "csv">>} \cup ChartFiles("scholar", formats)
            /\ results' = results \cup ManifestKeys("scholar", formats)
       ELSE UNCHANGED <<dirs, invoked, files, results>>
    /\ UNCHANGED <<argv, sources, formats, gen_idx, opened, exit_code>>
    /\ UNCHANGED varsGen

\* run_hypeplot, lines 249-291; fetch_trends may raise (trends.py, lines 136-142),
\* after it has made its cache directory, and nothing catches it
RunTrends ==
    /\ cli_pc = "trends"
    /\ IF "trends" \in sources
       THEN \E fetched \in BOOLEAN :
                /\ invoked' = Append(invoked, "trends")
                /\ IF fetched
                   THEN /\ dirs' = dirs \cup {"trends_cache", SourceDir("trends")}
                        /\ files' = files
                               \cup (IF "csv" \in formats THEN {<<"trends", "csv">>} ELSE {})
                               \cup ChartFiles("trends", formats)
                        /\ results' = results \cup ManifestKeys("trends", formats)
                        /\ cli_pc' = "generic"
                        /\ gen_idx' = 1
                        /\ UNCHANGED exit_code
                   ELSE /\ dirs' = dirs \cup {"trends_cache"}
                        /\ cli_pc' = "raised"
                        /\ exit_code' = 1
                        /\ UNCHANGED <<files, results, gen_idx>>
       ELSE /\ cli_pc' = "generic"
            /\ gen_idx' = 1
            /\ UNCHANGED <<dirs, invoked, files, results, exit_code>>
    /\ UNCHANGED <<argv, sources, formats, opened>>
    /\ UNCHANGED varsGen

\* the positions of generic_source_names from gen_idx on that were asked for
GenericLeft ==
    {i \in gen_idx..Len(generic_source_names) : generic_source_names[i] \in sources}

\* run_hypeplot, lines 312-343, with process_generic_source, lines 124-165:
\* the next requested source of the loop
RunGeneric ==
    /\ cli_pc = "generic"
    /\ GenericLeft # {}
    /\ LET i    == CHOOSE k \in GenericLeft : \A j \in GenericLeft : k <= j
           name == generic_source_names[i]
       IN  /\ dirs' = dirs \cup {SourceDir(name)}
           /\ invoked' = Append(invoked, name)
           /\ files' = files \cup {<<name, "csv">>} \cup ChartFiles(name, formats)
           /\ results' = results \cup ManifestKeys(name, formats)
           /\ gen_idx' = i + 1
    /\ UNCHANGED <<argv, cli_pc, sources, formats, opened, exit_code>>
    /\ UNCHANGED varsGen

\* run_hypeplot, lines 345-358: the loop is over; summary, the first chart, return 0
RunSummary ==
    /\ cli_pc = "generic"
    /\ GenericLeft = {}
    /\ opened' = IF ~argv.no_open /\ "html" \in formats
                 THEN IF <<"scholar", "html">> \in results /\ <<"scholar", "html">> \in files
                      THEN Append(opened, <<"scholar", "html">>)
                      ELSE IF <<"scholar", "html">> \notin results
                              /\ <<"trends", "html">> \in results
                              /\ <<"trends", "html">> \in files
                      THEN Append(opened, <<"trends", "html">>)
                      ELSE opened
                 ELSE opened
    /\ cli_pc' = "exit"
    /\ exit_code' = 0
    /\ UNCHANGED <<argv, sources, formats, gen_idx, results, dirs, files, invoked>>
    /\ UNCHANGED varsGen

NextCli ==
    \/ MainParseYears /\ UNCHANGED <<varsSess, varsTrends, varsPypi>>
    \/ MainValidateSources /\ UNCHANGED <<varsSess, varsTrends, varsPypi>>
    \/ MainValidateFormats /\ UNCHANGED <<varsSess, varsTrends, varsPypi>>
    \/ RunParseBucket /\ UNCHANGED <<varsSess, varsTrends, varsPypi>>
    \/ RunScholar /\ UNCHANGED <<varsSess, varsTrends, varsPypi>>
    \/ RunTrends /\ UNCHANGED <<varsSess, varsTrends, varsPypi>>
    \/ RunGeneric /\ UNCHANGED <<varsSess, varsTrends, varsPypi>>
    \/ RunSummary /\ UNCHANGED <<varsSess, varsTrends, varsPypi>>

SpecCli == InitCli /\ [][NextCli]_vars

---------------------------------------------------------------------------
(* The generator on its own *)

Init == InitGen /\ CliIdle /\ SessIdle /\ TrendsIdle /\ PypiIdle

Next ==
    \/ Call /\ UNCHANGED <<varsCli, varsSess, varsTrends, varsPypi>>
    \/ YieldYear /\ UNCHANGED <<varsCli, varsSess, varsTrends, varsPypi>>
    \/ YieldQuarter /\ UNCHANGED <<varsCli, varsSess, varsTrends, varsPypi>>
    \/ YieldMonth /\ UNCHANGED <<varsCli, varsSess, varsTrends, varsPypi>>
    \/ YieldCustom /\ UNCHANGED <<varsCli, varsSess, varsTrends, varsPypi>>
    \/ ReturnCalendar /\ UNCHANGED <<varsCli, varsSess, varsTrends, varsPypi>>
    \/ ReturnCustom /\ UNCHANGED <<varsCli, varsSess, varsTrends, varsPypi>>

Spec == Init /\ [][Next]_vars

\* the consumer of the generator is a for loop: it asks for the next bucket
\* until the generator ends
FairSpec == Spec /\ WF_vars(Next)

---------------------------------------------------------------------------
(* Properties of generate_date_buckets *)

Done == pc = "done"

Jan1(y)  == Ymd2Ord(y, 1, 1)
Dec31(y) == Ymd2Ord(y, 12, 31)

\* the days a bucket spans, and how many they are
DaySpan(b) == b.start.ord .. b.end.ord
Days(b)    == b.end.ord - b.start.ord + 1

\* a bucket runs from the first second of a day to the last second of a day
WholeDays(b) == b.start.sec = 0 /\ b.end.sec = SecondsPerDay - 1

Ymd(y, m, d) == [year |-> y, month |-> m, day |-> d]

\* the bucket spec is 'days:N'
IsDaysSpec == StartsWith(bucket, StrDaysColon)

\* datetime < datetime
DtLt(a, b) == DtLe(a, b) /\ a # b

\* C1: for start_year <= end_year and every width, the buckets yielded are
\* whole days, each starts the day after the previous one ends, and once the
\* generator has ended the union of their day-spans is exactly
\* Jan 1 start_year .. Dec 31 end_year.
C1_ContiguousCover ==
    /\ \A i \in 1..Len(out) : WholeDays(out[i]) /\ out[i].start.ord <= out[i].end.ord
    /\ \A i \in 2..Len(out) : out[i].start.ord = out[i - 1].end.ord + 1
    /\ (Done /\ start_year <= end_year) =>
           UNION {DaySpan(out[i]) : i \in 1..Len(out)} = Jan1(start_year) .. Dec31(end_year)

C1_Witness ==
    /\ Done
    /\ start_year < end_year
    /\ bucket = DaysSpec(45)
    /\ Len(out) > 2

\* C2 (as claimed): for every 'days:N' the first bucket starts at Jan 1 of
\* start_year and every bucket but the last spans exactly N days.
C2_DaysSpecExactWidth ==
    IsDaysSpec =>
        /\ Len(out) >= 1 => out[1].start = YearStart(start_year)
        /\ \A i \in 1..(Len(out) - 1) :
               out[i].end.ord = out[i].start.ord + IntOf(AfterFirstColon(bucket)).val - 1

\* C3: for 'days:N' with N none of 30, 90, 365, 366: no bucket ends after
\* Dec 31 of end_year, every bucket has between 1 and N days, the last one ends
\* exactly on Dec 31 of end_year; for N = 10 over 2025-2025 the first bucket is
\* 2025-01-01..2025-01-10 and the last ends 2025-12-31.
C3_LastBucketCut ==
    (IsDaysSpec /\ bucket_days \notin {30, 90, 365, 366}) =>
        /\ \A i \in 1..Len(out) :
               /\ DtLe(out[i].end, YearEnd(end_year))
               /\ Days(out[i]) \in 1..bucket_days
        /\ (Done /\ start_year <= end_year) =>
               /\ out # <<>>
               /\ out[Len(out)].end = YearEnd(end_year)
        /\ (bucket = DaysSpec(10) /\ start_year = 2025 /\ end_year = 2025) =>
               /\ Len(out) >= 1 =>
                      /\ Ord2Ymd(out[1].start.ord) = Ymd(2025, 1, 1)
                      /\ Ord2Ymd(out[1].end.ord) = Ymd(2025, 1, 10)
               /\ Done => Ord2Ymd(out[Len(out)].end.ord) = Ymd(2025, 12, 31)

C3_Witness ==
    /\ Done
    /\ bucket = DaysSpec(10)
    /\ start_year = 2025
    /\ end_year = 2025
    /\ Days(out[Len(out)]) < 10

\* C4: the yearly width yields one bucket per year of start_year..end_year, the
\* i-th from Jan 1 to Dec 31 of year start_year + i - 1 (366 days in a leap
\* year), labelled with the 4-digit year; one bucket labelled str(Y) when
\* start_year = end_year = Y.
C4_Yearly ==
    (bucket = StrYearly) =>
        /\ \A i \in 1..Len(out) :
               LET y == start_year + i - 1
                   b == out[i]
               IN  /\ y <= end_year
                   /\ Ord2Ymd(b.start.ord) = Ymd(y, 1, 1)
                   /\ Ord2Ymd(b.end.ord) = Ymd(y, 12, 31)
                   /\ WholeDays(b)
                   /\ Days(b) = IF IsLeap(y) THEN 366 ELSE 365
                   /\ b.label = ToString(y)
                   /\ Len(b.label) = 4
        /\ (Done /\ start_year <= end_year) => Len(out) = end_year - start_year + 1
        /\ (Done /\ start_year = end_year) =>
               Len(out) = 1 /\ out[1].label = ToString(start_year)

C4_Witness ==
    /\ Done
    /\ bucket = StrYearly
    /\ start_year = end_year
    /\ IsLeap(start_year)
    /\ Len(out) = 1

\* the day boundaries of the four quarters: start month, start day, end month,
\* end day
QuarterBounds == <<<<1, 1, 3, 31>>, <<4, 1, 6, 30>>, <<7, 1, 9, 30>>, <<10, 1, 12, 31>>>>

\* C5: the quarterly width yields four buckets per year in order, Jan 1-Mar 31,
\* Apr 1-Jun 30, Jul 1-Sep 30, Oct 1-Dec 31, the n-th of a year labelled
\* '<year>-Qn'.
C5_Quarterly ==
    (bucket = StrQuarterly) =>
        /\ \A i \in 1..Len(out) :
               LET y == start_year + ((i - 1) \div 4)
                   n == ((i - 1) % 4) + 1
                   b == out[i]
               IN  /\ y <= end_year
                   /\ Ord2Ymd(b.start.ord) = Ymd(y, QuarterBounds[n][1], QuarterBounds[n][2])
                   /\ Ord2Ymd(b.end.ord) = Ymd(y, QuarterBounds[n][3], QuarterBounds[n][4])
                   /\ WholeDays(b)
                   /\ b.label = ToString(y) \o "-Q" \o ToString(n)
        /\ (Done /\ start_year <= end_year) => Len(out) = 4 * (end_year - start_year + 1)

C5_Witness ==
    /\ Done
    /\ bucket = StrQuarterly
    /\ start_year < end_year
    /\ Len(out) = 8
    /\ out[6].label = "2025-Q2"

\* C6: the monthly width yields twelve buckets per year, the m-th from day 1 of
\* month m to the last calendar day of month m (February: 29 in a leap year,
\* 28 otherwise), labelled '<year>-<two-digit month>'.
C6_Monthly ==
    (bucket = StrMonthly) =>
        /\ \A i \in 1..Len(out) :
               LET y == start_year + ((i - 1) \div 12)
                   m == ((i - 1) % 12) + 1
                   b == out[i]
               IN  /\ y <= end_year
                   /\ Ord2Ymd(b.start.ord) = Ymd(y, m, 1)
                   /\ Ord2Ymd(b.end.ord) = Ymd(y, m, DaysInMonth(y, m))
                   /\ WholeDays(b)
                   /\ b.label = ToString(y) \o "-" \o Pad2(m)
                   /\ Len(b.label) = 7
        /\ (Done /\ start_year <= end_year) => Len(out) = 12 * (end_year - start_year + 1)

C6_Witness ==
    /\ Done
    /\ bucket = StrMonthly
    /\ start_year < end_year
    /\ Len(out) = 24
    /\ out[2].label = "2024-02"
    /\ Days(out[2]) = 29
    /\ Days(out[14]) = 28

\* C7: a bucket of the fixed-day-count loop is labelled with its start date
\* alone (YYYY-MM-DD) exactly when its start and its end lie in the same month
\* of the same year, and with '<start date>_<end date>' otherwise;
\* format_bucket_label gives the same label.
C7_CustomLabelShape ==
    (Branch(bucket_days) = "custom") =>
        \A i \in 1..Len(out) :
            LET b  == out[i]
                ys == Ord2Ymd(b.start.ord)
                ye == Ord2Ymd(b.end.ord)
                sameMonth == ys.year = ye.year /\ ys.month = ye.month
                startDate == ToString(ys.year) \o "-" \o Pad2(ys.month) \o "-" \o Pad2(ys.day)
                endDate   == ToString(ye.year) \o "-" \o Pad2(ye.month) \o "-" \o Pad2(ye.day)
            IN  /\ sameMonth <=> b.label = startDate
                /\ ~sameMonth <=> b.label = startDate \o "_" \o endDate
                /\ Len(b.label) \in {10, 21}
                /\ format_bucket_label(b.start, b.end, bucket_days) = b.label

\* a bucket from a January into the January of the next year
C7_Witness ==
    /\ Done
    /\ Branch(bucket_days) = "custom"
    /\ Len(out) = 2
    /\ out[1].label = "2024-01-01_2025-01-05"
    /\ MonthOf(out[1].start) = MonthOf(out[1].end)

\* C8: with end_year < start_year nothing is yielded, for every width, and the
\* generator ends: after the call its next step is its return.
C8_EmptyWhenReversed ==
    (end_year < start_year) =>
        /\ out = <<>>
        /\ pc \notin {"call", "done"} =>
               /\ ENABLED (ReturnCalendar \/ ReturnCustom)
               /\ ~ENABLED (YieldYear \/ YieldQuarter \/ YieldMonth \/ YieldCustom)

C8_Witness ==
    /\ Done
    /\ end_year < start_year
    /\ Branch(bucket_days) = "custom"
    /\ out = <<>>

\* C9: every pass of the fixed-width loop moves current_start strictly
\* forward, and the generator ends after finitely many buckets.
C9_Terminates ==
    /\ [][YieldCustom => DtLt(current_start, current_start')]_vars
    /\ <>Done

C9_Witness ==
    /\ Done
    /\ start_year <= end_year
    /\ bucket = DaysSpec(1)
    /\ Len(out) = Dec31(end_year) - Jan1(start_year) + 1

---------------------------------------------------------------------------
(* Properties of the command line *)

\* the command line names an unknown source, an unknown format, or a bucket
\* spec that is none of yearly, monthly, quarterly, days:N with N a positive
\* integer
ConfigError ==
    \/ \E n \in argv.source : \A i \in 1..Len(AvailableSources) : AvailableSources[i] # n
    \/ \E f \in EffectiveFormats(argv) : f \notin {"csv", "html", "png"}
    \/ bucket \in BadBucketSpecs

\* every part of the command line is valid
ValidConfig ==
    /\ ~ConfigError
    /\ argv.start \in GoodStartArgs
    /\ argv.end \in GoodEndArgs

\* C10: with a configuration error the run ends with exit code 1, and no
\* adapter is called and no directory or file is created at any point of it;
\* a run with a valid configuration that reaches its end returns 0.
C10_ConfigErrorExitsEarly ==
    /\ ConfigError =>
           /\ invoked = <<>>
           /\ dirs = {}
           /\ files = {}
           /\ cli_pc \in {"parse_years", "validate_sources", "validate_formats",
                         "parse_bucket", "exit"}
           /\ cli_pc = "exit" => exit_code = 1
           /\ cli_pc # "exit" => exit_code = -1
    /\ (ValidConfig /\ cli_pc = "exit") => exit_code = 0

\* a non-positive N is the only error, found last, after sources and formats
C10_Witness ==
    /\ cli_pc = "exit"
    /\ exit_code = 1
    /\ bucket = DaysSpec(0)
    /\ argv.source = {"github", "scholar"}
    /\ formats = {"csv", "html"}
    /\ start_year = 2024

---------------------------------------------------------------------------
(* The generic adapters (sources/*.py): one get_range session each, run by  *)
(* process_generic_source inside run_hypeplot's loop                        *)

\* most buckets of the sessions of one run together
MaxRequests == 12
\* most requests of one run that fail
MaxFailures == 2

\* the adapters run_hypeplot drives through process_generic_source
Adapters == {generic_source_names[i] : i \in 1..Len(generic_source_names)}

\* mutant of Credential: only news tests its key
CredentialNewsOnly(a) == IF a = "news" THEN "NEWS_API_KEY" ELSE ""

\* the environment variable get_range tests before its loop, "" when it tests none
Credential(a) ==
    IF a = "news" THEN "NEWS_API_KEY"
    ELSE IF a = "youtube" THEN "YOUTUBE_API_KEY"
    ELSE IF a = "twitter" THEN "TWITTER_BEARER_TOKEN"
    ELSE ""

CredentialNames == {"NEWS_API_KEY", "YOUTUBE_API_KEY", "TWITTER_BEARER_TOKEN"}

\* the time.sleep at the end of get_range's loop body, in milliseconds
SleepMillis(a) ==
    IF a = "github" THEN 6000
    ELSE IF a = "arxiv" THEN 3000
    ELSE IF a = "patents" THEN 2000
    ELSE IF a = "packages" THEN 500
    ELSE 1000

\* the metric columns of a row, after period, start_date, end_date
MetricColumns(a) ==
    IF a = "arxiv" THEN <<"paper_count">>
    ELSE IF a = "github"
         THEN <<"repo_count", "total_stars", "total_forks", "total_watchers">>
    ELSE IF a = "grants"
         THEN <<"grant_count", "total_amount_usd", "avg_amount_usd", "institutions">>
    ELSE IF a = "news" THEN <<"article_count", "source_count">>
    ELSE IF a = "packages" THEN <<"registry", "package", "downloads">>
    ELSE IF a = "patents" THEN <<"application_count", "grant_count">>
    ELSE IF a = "reddit" THEN <<"post_count", "total_score", "avg_score">>
    ELSE IF a = "twitter" THEN <<"tweet_count">>
    ELSE <<"video_count", "total_views", "avg_views">>

\* the keys of a row dict, in insertion order
Columns(a) == <<"period", "start_date", "end_date">> \o MetricColumns(a)

\* get_range has an output_file parameter and writes it: every adapter but
\* github and grants, which leave the file to the caller
WritesOutputFile(a) == a \notin {"github", "grants"}

\* the default of output_file, a path relative to the working directory
DefaultOutputFile(a) == a \o "_data.csv"

\* the ways a request fails
FailureKinds == {"timeout", "non2xx", "malformed", "ratelimit"}

\* what the try block of the per-bucket fetch function raises on a failure:
\* requests.get times out; raise_for_status meets a 4xx/5xx status (a rate
\* limit is a 403/429); the body is not the document expected: not JSON/XML
\* at all (a decode error), or JSON of another shape (data.get on a list).
\* reddit tests status_code itself and raises nothing on a bad status.
Raises(a, kind) ==
    IF kind = "timeout" THEN {"Timeout"}
    ELSE IF kind \in {"non2xx", "ratelimit"}
         THEN (IF a = "reddit" THEN {} ELSE {"HTTPError"})
    ELSE IF a = "arxiv" THEN {"ParseError"}
    ELSE {"JSONDecodeError", "AttributeError"}

\* the subclasses of requests.exceptions.RequestException among them
IsRequestException(e) == e \in {"Timeout", "HTTPError", "JSONDecodeError"}

\* the class named by the except clause of the per-bucket fetch function
ExceptClause(a) ==
    IF a \in {"github", "grants", "youtube"} THEN "RequestException" ELSE "Exception"

\* the except clause handles e
Caught(a, e) == ExceptClause(a) = "Exception" \/ IsRequestException(e)

\* the bucket the for loop of get_range holds: the last one yielded
Bucket == out[Len(out)]

\* the row dict get_range builds for the bucket: its label, its dates as
\* strftime("%Y-%m-%d"), and the metrics (0: zeros, 1: what the response held)
Row(b, m) ==
    [period |-> b.label, start_date |-> StrfYmd(b.start),
     end_date |-> StrfYmd(b.end), metrics |-> m]

\* news.get_range, line 123: the bucket is older than the free tier reaches
Historical(b) ==
    LET limit == DtSub(today, timedelta(30, 0, 0, 0))
    IN  DtLe(b.end, limit) /\ b.end # limit

\* entries of the log
Requested(a, i) == [src |-> a, kind |-> "request", i |-> i]
Warned(a, i)    == [src |-> a, kind |-> "warning", i |-> i]
Slept(a, i)     == [src |-> a, kind |-> "sleep", i |-> i, ms |-> SleepMillis(a)]

\* DataFrame(data).to_csv(index=False): the header is the keys of the rows,
\* and a frame made of no rows has no columns
CsvHeader(a, data) == IF data = <<>> THEN <<>> ELSE Columns(a)

\* a cell of a metric column
CsvCell(a, c, row) ==
    IF c = "registry" THEN "pypi"
    ELSE IF c = "package" THEN "term"
    ELSE ToString(row.metrics)

\* the data lines: one per row, the cells in column order
CsvData(a, data) ==
    [k \in 1..Len(data) |->
        <<data[k].period, data[k].start_date, data[k].end_date>>
            \o [j \in 1..Len(MetricColumns(a)) |->
                   CsvCell(a, MetricColumns(a)[j], data[k])]]

\* the number of buckets generate_date_buckets yields
BucketCount(days, sy, ey) ==
    IF sy > ey THEN 0
    ELSE IF Branch(days) = "yearly" THEN ey - sy + 1
    ELSE IF Branch(days) = "quarterly" THEN 4 * (ey - sy + 1)
    ELSE IF Branch(days) = "monthly" THEN 12 * (ey - sy + 1)
    ELSE LET total == YearEnd(ey).ord - YearStart(sy).ord + 1
         IN  (total + days - 1) \div days

\* the variables of the run that a step inside get_range leaves alone
varsRunFrame == <<argv, cli_pc, sources, formats, gen_idx, results, dirs, files,
                  invoked, opened, exit_code>>

\* the bucket specs and the clock readings the sessions are run with
SessionBucketSpecs ==
    {StrYearly, StrQuarterly, StrMonthly,
     DaysSpec(90), DaysSpec(100), DaysSpec(250), DaysSpec(400)}
\* the credentials set: none or all (tried where a requested source reads one)
Environments == {{}, CredentialNames}
Todays == {datetime(2024, 8, 15, 12, 0, 0), datetime(LastYear + 1, 11, 5, 12, 0, 0)}

\* run_hypeplot has parsed the bucket spec; neither scholar nor trends was
\* asked for; the loop over generic_source_names is about to start
InitGeneric(universe, most) ==
    /\ bucket \in SessionBucketSpecs
    /\ bucket_days = ParseBucket(bucket).days
    /\ start_year \in Years
    /\ end_year \in Years
    /\ \E src \in {x \in SUBSET universe : Cardinality(x) \in 1..most},
          plt \in BOOLEAN :
          /\ argv = [source |-> src,
                     format |-> [given |-> FALSE, names |-> {}],
                     plot |-> plt, no_open |-> FALSE,
                     start |-> IntChars(start_year), end |-> IntChars(end_year)]
          /\ sources = src
          /\ formats = EffectiveFormats(argv)
    /\ Cardinality(sources) * BucketCount(bucket_days, start_year, end_year)
           <= MaxRequests
    /\ env \in Environments
    /\ (env # {} => \E a \in sources : Credential(a) # "")
    /\ cli_pc = "generic"
    /\ gen_idx = 1
    /\ results = {}
    /\ dirs = {}
    /\ files = {}
    /\ invoked = <<>>
    /\ opened = <<>>
    /\ exit_code = -1
    /\ GenIdle
    /\ adapter = ""
    /\ s_pc = "idle"
    /\ today = Unset
    /\ rows = <<>>
    /\ log = <<>>
    /\ failures = 0
    /\ csv = <<>>
    /\ cwd = {}
    /\ TrendsIdle
    /\ PypiIdle

\* mutant of ProcessGenericSource: the next source is started while the
\* session before it is asleep between two buckets
ProcessGenericSourceEarly ==
    /\ cli_pc = "generic"
    /\ s_pc \in {"idle", "sleep"}
    /\ GenericLeft # {}
    /\ LET i    == CHOOSE k \in GenericLeft : \A j \in GenericLeft : k <= j
           name == generic_source_names[i]
       IN  /\ dirs' = dirs \cup {SourceDir(name)}
           /\ invoked' = Append(invoked, name)
           /\ gen_idx' = i + 1
           /\ adapter' = name
    /\ s_pc' = "get_range"
    /\ rows' = <<>>
    /\ today' = Unset
    /\ pc' = "call"
    /\ year' = 0
    /\ q' = 0
    /\ month' = 0
    /\ end_date' = Unset
    /\ current_start' = Unset
    /\ current_end' = Unset
    /\ label' = ""
    /\ out' = <<>>
    /\ UNCHANGED <<bucket, start_year, end_year, bucket_days>>
    /\ UNCHANGED <<argv, cli_pc, sources, formats, results, files, opened, exit_code>>
    /\ UNCHANGED <<env, log, failures, csv, cwd>>
    /\ UNCHANGED <<varsTrends, varsPypi>>

\* run_hypeplot, lines 312-343, and process_generic_source, lines 124-143:
\* the loop reaches the next requested source, makes its directory and calls
\* get_range, whose generator is created
ProcessGenericSource ==
    /\ cli_pc = "generic"
    /\ s_pc = "idle"
    /\ GenericLeft # {}
    /\ LET i    == CHOOSE k \in GenericLeft : \A j \in GenericLeft : k <= j
           name == generic_source_names[i]
       IN  /\ dirs' = dirs \cup {SourceDir(name)}
           /\ invoked' = Append(invoked, name)
           /\ gen_idx' = i + 1
           /\ adapter' = name
    /\ s_pc' = "get_range"
    /\ rows' = <<>>
    /\ today' = Unset
    /\ pc' = "call"
    /\ year' = 0
    /\ q' = 0
    /\ month' = 0
    /\ end_date' = Unset
    /\ current_start' = Unset
    /\ current_end' = Unset
    /\ label' = ""
    /\ out' = <<>>
    /\ UNCHANGED <<bucket, start_year, end_year, bucket_days>>
    /\ UNCHANGED <<argv, cli_pc, sources, formats, results, files, opened, exit_code>>
    /\ UNCHANGED <<env, log, failures, csv, cwd>>
    /\ UNCHANGED <<varsTrends, varsPypi>>

\* get_range up to its loop: the credential is tested once (news 88-107,
\* youtube 143-162, twitter 77-95); news reads the clock (line 112)
GetRangeEnter ==
    /\ s_pc = "get_range"
    /\ IF Credential(adapter) # "" /\ Credential(adapter) \notin env
       THEN /\ s_pc' = "zero_pull"
            /\ log' = Append(log, Warned(adapter, 0))
            /\ today' = today
       ELSE /\ s_pc' = "pull"
            /\ log' = log
            /\ IF adapter = "news" THEN today' \in Todays ELSE today' = today
    /\ UNCHANGED <<env, adapter, rows, failures, csv, cwd>>
    /\ UNCHANGED <<varsGen, varsRunFrame, varsTrends, varsPypi>>

\* the for statement asks the generator for the next bucket
Pulling == s_pc \in {"pull", "zero_pull"}
Pulled == s_pc' = (IF s_pc = "pull" THEN "fetch" ELSE "zero_fill")
SessFrame == UNCHANGED <<env, adapter, today, rows, log, failures, csv, cwd>>
                 /\ UNCHANGED <<varsRunFrame, varsTrends, varsPypi>>

ForCall == Pulling /\ Call /\ UNCHANGED s_pc /\ SessFrame
ForYieldYear == Pulling /\ YieldYear /\ Pulled /\ SessFrame
ForYieldQuarter == Pulling /\ YieldQuarter /\ Pulled /\ SessFrame
ForYieldMonth == Pulling /\ YieldMonth /\ Pulled /\ SessFrame
ForYieldCustom == Pulling /\ YieldCustom /\ Pulled /\ SessFrame
ForReturnCalendar == Pulling /\ ReturnCalendar /\ s_pc' = "to_csv" /\ SessFrame
ForReturnCustom == Pulling /\ ReturnCustom /\ s_pc' = "to_csv" /\ SessFrame

\* the loop of the missing-credential branch: a zero row, no request, no sleep
ZeroFill ==
    /\ s_pc = "zero_fill"
    /\ rows' = Append(rows, Row(Bucket, 0))
    /\ s_pc' = "zero_pull"
    /\ UNCHANGED <<env, adapter, today, log, failures, csv, cwd>>
    /\ UNCHANGED <<varsGen, varsRunFrame, varsTrends, varsPypi>>

\* news.get_range, lines 123-126: no request for a bucket the free tier does
\* not reach; the row is zero and the loop goes on to its sleep
SkipHistorical ==
    /\ s_pc = "fetch"
    /\ adapter = "news"
    /\ Historical(Bucket)
    /\ log' = Append(log, Warned(adapter, Len(out)))
    /\ rows' = Append(rows, Row(Bucket, 0))
    /\ s_pc' = "sleep"
    /\ UNCHANGED <<env, adapter, today, failures, csv, cwd>>
    /\ UNCHANGED <<varsGen, varsRunFrame, varsTrends, varsPypi>>

\* the per-bucket fetch function answers and the row is appended
FetchOk ==
    /\ s_pc = "fetch"
    /\ ~(adapter = "news" /\ Historical(Bucket))
    /\ log' = Append(log, Requested(adapter, Len(out)))
    /\ rows' = Append(rows, Row(Bucket, 1))
    /\ s_pc' = "sleep"
    /\ UNCHANGED <<env, adapter, today, failures, csv, cwd>>
    /\ UNCHANGED <<varsGen, varsRunFrame, varsTrends, varsPypi>>

\* the request fails and the fetch function handles it: zero metrics, and a
\* warning where an except clause ran
FetchDegraded ==
    /\ s_pc = "fetch"
    /\ ~(adapter = "news" /\ Historical(Bucket))
    /\ failures < MaxFailures
    /\ \E kind \in FailureKinds :
          \/ /\ Raises(adapter, kind) = {}
             /\ log' = Append(log, Requested(adapter, Len(out)))
          \/ \E e \in Raises(adapter, kind) :
                /\ Caught(adapter, e)
                /\ log' = log \o <<Requested(adapter, Len(out)),
                                  Warned(adapter, Len(out))>>
    /\ failures' = failures + 1
    /\ rows' = Append(rows, Row(Bucket, 0))
    /\ s_pc' = "sleep"
    /\ UNCHANGED <<env, adapter, today, csv, cwd>>
    /\ UNCHANGED <<varsGen, argv, cli_pc, sources, formats, gen_idx, results,
                   dirs, files, invoked, opened, exit_code>>
    /\ UNCHANGED <<varsTrends, varsPypi>>

\* the request fails with an exception the except clause does not name: it
\* leaves the fetch function, get_range, process_generic_source and
\* run_hypeplot, none of which has a handler
FetchRaises ==
    /\ s_pc = "fetch"
    /\ ~(adapter = "news" /\ Historical(Bucket))
    /\ failures < MaxFailures
    /\ \E kind \in FailureKinds : \E e \in Raises(adapter, kind) :
          ~Caught(adapter, e)
    /\ log' = Append(log, Requested(adapter, Len(out)))
    /\ failures' = failures + 1
    /\ s_pc' = "raised"
    /\ cli_pc' = "raised"
    /\ exit_code' = 1
    /\ UNCHANGED <<env, adapter, today, rows, csv, cwd>>
    /\ UNCHANGED <<varsGen, argv, sources, formats, gen_idx, results, dirs,
                   files, invoked, opened>>
    /\ UNCHANGED <<varsTrends, varsPypi>>

\* mutant of Sleep: the loop sleeps only after a request that was answered
SleepAfterSuccessOnly ==
    /\ s_pc = "sleep"
    /\ log' = IF rows[Len(rows)].metrics = 0 THEN log
              ELSE Append(log, Slept(adapter, Len(out)))
    /\ s_pc' = "pull"
    /\ UNCHANGED <<env, adapter, today, rows, failures, csv, cwd>>
    /\ UNCHANGED <<varsGen, varsRunFrame, varsTrends, varsPypi>>

\* the time.sleep that ends the loop body
Sleep ==
    /\ s_pc = "sleep"
    /\ log' = Append(log, Slept(adapter, Len(out)))
    /\ s_pc' = "pull"
    /\ UNCHANGED <<env, adapter, today, rows, failures, csv, cwd>>
    /\ UNCHANGED <<varsGen, varsRunFrame, varsTrends, varsPypi>>

\* get_range after its loop: df = DataFrame(data), written to output_file
\* where the adapter has one, and returned
GetRangeReturn ==
    /\ s_pc = "to_csv"
    /\ cwd' = IF WritesOutputFile(adapter)
              THEN cwd \cup {DefaultOutputFile(adapter)} ELSE cwd
    /\ s_pc' = "save_csv"
    /\ UNCHANGED <<env, adapter, today, rows, log, failures, csv>>
    /\ UNCHANGED <<varsGen, varsRunFrame, varsTrends, varsPypi>>

\* process_generic_source, lines 145-165: save_csv writes the table; the
\* manifest gets the csv key; visualize_data reads the file back with
\* pd.read_csv, which raises on a file without columns, and writes the charts
SaveAndVisualize ==
    /\ s_pc = "save_csv"
    /\ csv' = Append(csv, [source |-> adapter,
                           header |-> CsvHeader(adapter, rows),
                           data |-> CsvData(adapter, rows)])
    /\ LET csvKey == IF "csv" \in formats THEN {<<adapter, "csv">>} ELSE {}
           charts == "html" \in formats \/ "png" \in formats
       IN  IF charts /\ CsvHeader(adapter, rows) = <<>>
           THEN /\ files' = files \cup {<<adapter, "csv">>}
                /\ results' = results \cup csvKey
                /\ s_pc' = "raised"
                /\ cli_pc' = "raised"
                /\ exit_code' = 1
           ELSE /\ files' = files \cup {<<adapter, "csv">>}
                               \cup ChartFiles(adapter, formats)
                /\ results' = results \cup ManifestKeys(adapter, formats)
                /\ s_pc' = "idle"
                /\ UNCHANGED <<cli_pc, exit_code>>
    /\ UNCHANGED <<env, adapter, today, rows, log, failures, cwd>>
    /\ UNCHANGED <<varsGen, argv, sources, formats, gen_idx, dirs, invoked, opened>>
    /\ UNCHANGED <<varsTrends, varsPypi>>

\* the loop is over
Summary == s_pc = "idle" /\ RunSummary /\ UNCHANGED <<varsSess, varsTrends, varsPypi>>

NextGeneric ==
    \/ ProcessGenericSource
    \/ GetRangeEnter
    \/ ForCall
    \/ ForYieldYear
    \/ ForYieldQuarter
    \/ ForYieldMonth
    \/ ForYieldCustom
    \/ ForReturnCalendar
    \/ ForReturnCustom
    \/ ZeroFill
    \/ SkipHistorical
    \/ FetchOk
    \/ FetchDegraded
    \/ FetchRaises
    \/ Sleep
    \/ GetRangeReturn
    \/ SaveAndVisualize
    \/ Summary

\* one source: every adapter on its own
InitSession == InitGeneric(Adapters, 1)
SpecSession == InitSession /\ [][NextGeneric]_vars

\* the loop over several requested sources
RunSourceUniverse == {"arxiv", "github", "news"}
InitRun == InitGeneric(RunSourceUniverse, MaxSources)
SpecRun == InitRun /\ [][NextGeneric]_vars

---------------------------------------------------------------------------
(* The package adapter against pypistats (sources/packages.py): every       *)
(* request is answered with the same list of dated download entries         *)

\* most entries of a response that is not the whole list
MaxEntries == 2

\* "%Y-%m-%d" of a date, as characters
DateChars(y, m, d) ==
    IntChars(y) \o <<"-">> \o (IF m < 10 THEN <<"0">> ELSE <<>>) \o IntChars(m)
               \o <<"-">> \o (IF d < 10 THEN <<"0">> ELSE <<>>) \o IntChars(d)

\* datetime.strptime(date_str, "%Y-%m-%d"): [ok |-> FALSE] stands for ValueError
StrptimeYmdDate(s) ==
    LET d1 == FirstDashFrom(s, 1)
        d2 == IF d1 = 0 THEN 0 ELSE FirstDashFrom(s, d1 + 1)
        ys == SubSeq(s, 1, d1 - 1)
        ms == SubSeq(s, d1 + 1, d2 - 1)
        ds == SubSeq(s, d2 + 1, Len(s))
        bad == [ok |-> FALSE, val |-> Unset]
    IN  IF d1 = 0 \/ d2 = 0 THEN bad
        ELSE IF ~(IsDigits(ys, 4, 4) /\ IsDigits(ms, 1, 2) /\ IsDigits(ds, 1, 2)) THEN bad
        ELSE LET y == IntOf(ys).val
                 m == IntOf(ms).val
                 d == IntOf(ds).val
             IN  IF y >= 1 /\ m \in 1..12 /\ d >= 1 /\ d <= DaysInMonth(y, m)
                 THEN [ok |-> TRUE, val |-> datetime(y, m, d, 0, 0, 0)]
                 ELSE bad

\* an entry of data["data"]; <<>> stands for a date that is missing
Entry(date, downloads) == [date |-> date, downloads |-> downloads]

\* the entries responses are made of: the days around the ends of the range
\* and of the buckets in it, a day twice (the API lists each day once per
\* category), a date that does not exist, an entry without a date
PypiEntries ==
    <<Entry(DateChars(2023, 12, 31), 1),
      Entry(DateChars(2024, 1, 1), 2),
      Entry(DateChars(2024, 2, 29), 4),
      Entry(DateChars(2024, 4, 9), 16),
      Entry(DateChars(2024, 4, 10), 32),
      Entry(DateChars(2025, 1, 1), 128),
      Entry(DateChars(LastYear, 12, 31), 256),
      Entry(DateChars(LastYear + 1, 1, 1), 512),
      Entry(DateChars(2024, 4, 10), 1024),
      Entry(DateChars(2024, 2, 30), 2048),
      Entry(<<>>, 4096)>>

\* the entries of PypiEntries at the positions of S, in order
Pick(S) ==
    LET f[k \in 0..Len(PypiEntries)] ==
            IF k = 0 THEN <<>>
            ELSE IF k \in S THEN Append(f[k - 1], PypiEntries[k]) ELSE f[k - 1]
    IN  f[Len(PypiEntries)]

\* the responses tried: a few entries, or all of them
PypiResponses ==
    {Pick(S) : S \in {T \in SUBSET (1..Len(PypiEntries)) :
                         Cardinality(T) <= MaxEntries
                             \/ T = 1..Len(PypiEntries)}}

\* mutant of get_pypi_downloads: the first day of the range is left out
RECURSIVE get_pypi_downloadsAfterStart(_, _, _)
get_pypi_downloadsAfterStart(data, sd, ed) ==
    IF data = <<>> THEN 0
    ELSE LET entry    == Head(data)
             date_obj == StrptimeYmdDate(entry.date)
             counted  == /\ entry.date # <<>>
                         /\ date_obj.ok
                         /\ DtLe(sd, date_obj.val) /\ sd # date_obj.val
                         /\ DtLe(date_obj.val, ed)
         IN  (IF counted THEN entry.downloads ELSE 0)
                 + get_pypi_downloadsAfterStart(Tail(data), sd, ed)

\* get_pypi_downloads, lines 38-53: the downloads of the entries whose date
\* parses and lies in start_date <= date_obj <= end_date
RECURSIVE get_pypi_downloads(_, _, _)
get_pypi_downloads(data, sd, ed) ==
    IF data = <<>> THEN 0
    ELSE LET entry    == Head(data)
             date_obj == StrptimeYmdDate(entry.date)
             counted  == /\ entry.date # <<>>
                         /\ date_obj.ok
                         /\ DtLe(sd, date_obj.val)
                         /\ DtLe(date_obj.val, ed)
         IN  (IF counted THEN entry.downloads ELSE 0)
                 + get_pypi_downloads(Tail(data), sd, ed)

\* the bucket specs of these sessions
PypiBucketSpecs ==
    {StrYearly, StrQuarterly, StrMonthly, DaysSpec(100)}

\* packages.get_range(term, start_year, end_year, registry="pypi",
\* bucket_days=...) is called; its loop is about to ask for the first bucket
InitPypi ==
    /\ bucket \in PypiBucketSpecs
    /\ bucket_days = ParseBucket(bucket).days
    /\ start_year \in Years
    /\ end_year \in Years
    /\ response \in PypiResponses
    /\ pc = "call"
    /\ year = 0
    /\ q = 0
    /\ month = 0
    /\ end_date = Unset
    /\ current_start = Unset
    /\ current_end = Unset
    /\ label = ""
    /\ out = <<>>
    /\ CliIdle
    /\ env = {}
    /\ adapter = "packages"
    /\ s_pc = "pull"
    /\ today = Unset
    /\ rows = <<>>
    /\ log = <<>>
    /\ failures = 0
    /\ csv = <<>>
    /\ cwd = {}
    /\ TrendsIdle

\* packages.get_range, lines 108-117: the request is answered with the
\* response, and the row of the bucket gets the downloads counted for it
GetPypiDownloads ==
    /\ s_pc = "fetch"
    /\ adapter = "packages"
    /\ log' = Append(log, Requested(adapter, Len(out)))
    /\ rows' = Append(rows, Row(Bucket,
                                get_pypi_downloads(response, Bucket.start, Bucket.end)))
    /\ s_pc' = "sleep"
    /\ UNCHANGED <<env, adapter, today, failures, csv, cwd>>
    /\ UNCHANGED <<varsGen, varsRunFrame, varsTrends, varsPypi>>

NextPypi ==
    \/ ForCall
    \/ ForYieldYear
    \/ ForYieldQuarter
    \/ ForYieldMonth
    \/ ForYieldCustom
    \/ ForReturnCalendar
    \/ ForReturnCustom
    \/ GetPypiDownloads
    \/ Sleep
    \/ GetRangeReturn

SpecPypi == InitPypi /\ [][NextPypi]_vars

---------------------------------------------------------------------------
(* fetch_trends and _fetch_with_retries (sources/trends.py) *)

\* the default of the parameter retries
Retries == 3

\* the timeframe run_hypeplot asks for, and fetch_trends's default
Timeframes == {"all", "today 5-y"}

\* fallback_tf
FallbackTimeframe == "today 5-y"

\* a cache file: missing, unusable (unreadable, or without the columns week
\* and interest), or holding the data of a timeframe
CacheStates == {"none", "invalid"}

\* entries of t_log
Attempted(n, k, tf, outcome) ==
    [kind |-> "request", loop |-> n, attempt |-> k, tf |-> tf, outcome |-> outcome]
Waited(why) == [kind |-> "sleep", why |-> why]
Stored(key, tf) == [kind |-> "write", key |-> key, tf |-> tf]
Suggested(outcome) == [kind |-> "suggest", outcome |-> outcome]

InitTrends ==
    /\ t_pc = "topic"
    /\ use_topic \in BOOLEAN
    /\ memo \in BOOLEAN
    /\ requested \in Timeframes
    /\ force \in BOOLEAN
    /\ cached \in {c \in [Timeframes -> CacheStates \cup Timeframes] :
                      \A tf \in Timeframes : c[tf] \in CacheStates \cup {tf}}
    /\ timeframe = ""
    /\ loops = 0
    /\ attempt = 0
    /\ last_err = ""
    /\ df = [kind |-> "", tf |-> ""]
    /\ t_log = <<>>
    /\ t_result = ""
    /\ GenIdle
    /\ bucket = <<>>
    /\ bucket_days = 0
    /\ start_year = 0
    /\ end_year = 0
    /\ CliIdle
    /\ SessIdle
    /\ PypiIdle

\* fetch_trends, lines 117-123, with _get_topic_mid: in topic mode a term
\* whose topic id is not memoized is looked up with pytrends.suggestions; a
\* failure of the lookup or of the write of the memo is swallowed
GetTopicMid ==
    /\ t_pc = "topic"
    /\ IF use_topic /\ ~memo
       THEN \/ /\ t_log' = Append(t_log, Suggested("mid"))
               /\ memo' \in BOOLEAN
            \/ /\ t_log' = Append(t_log, Suggested("none"))
               /\ memo' = memo
       ELSE UNCHANGED <<t_log, memo>>
    /\ t_pc' = "cache_test"
    /\ UNCHANGED <<use_topic, requested, force, cached, timeframe, loops, attempt,
                   last_err, df, t_result>>

\* mutant of CacheHit: a cache file that exists is returned, usable or not
CacheHitUnchecked ==
    /\ t_pc = "cache_test"
    /\ cached[requested] # "none"
    /\ ~force
    /\ df' = [kind |-> "data", tf |-> cached[requested]]
    /\ t_result' = "returned"
    /\ t_pc' = "done"
    /\ UNCHANGED <<requested, force, cached, timeframe, loops, attempt, last_err, t_log>>

\* fetch_trends, lines 124-133: a usable cache file and no force
CacheHit ==
    /\ t_pc = "cache_test"
    /\ cached[requested] \notin CacheStates
    /\ ~force
    /\ df' = [kind |-> "data", tf |-> cached[requested]]
    /\ t_result' = "returned"
    /\ t_pc' = "done"
    /\ UNCHANGED <<requested, force, cached, timeframe, loops, attempt, last_err, t_log>>

\* fetch_trends, lines 134-136: the pause, then _fetch_with_retries is called
\* with the requested timeframe
CacheMiss ==
    /\ t_pc = "cache_test"
    /\ cached[requested] \in CacheStates \/ force
    /\ t_log' = Append(t_log, Waited("start"))
    /\ timeframe' = requested
    /\ loops' = 1
    /\ attempt' = 0
    /\ last_err' = ""
    /\ t_pc' = "attempt"
    /\ UNCHANGED <<requested, force, cached, df, t_result>>

\* mutant of Exhausted: the loop runs one attempt more
ExhaustedLate(k) == k > Retries + 1

\* range(retries + 1) has no value k
Exhausted(k) == k > Retries

\* _fetch_with_retries, lines 97-99: the request is answered
AttemptReturns ==
    /\ t_pc = "attempt"
    /\ \E kind \in {"data", "empty"} :
          /\ t_log' = Append(t_log, Attempted(loops, attempt, timeframe, kind))
          /\ df' = [kind |-> kind, tf |-> timeframe]
    /\ t_pc' = "test_empty"
    /\ UNCHANGED <<requested, force, cached, timeframe, loops, attempt, last_err,
                   t_result>>

\* lines 100-106: TooManyRequestsError; the handler sleeps, the loop takes its
\* next value or ends
AttemptTooManyRequests ==
    /\ t_pc = "attempt"
    /\ t_log' = t_log \o <<Attempted(loops, attempt, timeframe, "TooManyRequestsError"),
                           Waited("429")>>
    /\ last_err' = "TooManyRequestsError"
    /\ attempt' = attempt + 1
    /\ t_pc' = IF Exhausted(attempt + 1) THEN "raise" ELSE "attempt"
    /\ UNCHANGED <<requested, force, cached, timeframe, loops, df, t_result>>

\* mutant of AttemptBreaks: the two handlers go on with the loop as the
\* first one does
AttemptBreaksRetrying ==
    /\ t_pc = "attempt"
    /\ \E e \in {"ResponseError", "Exception"} :
          /\ t_log' = Append(t_log, Attempted(loops, attempt, timeframe, e))
          /\ last_err' = e
    /\ attempt' = attempt + 1
    /\ t_pc' = IF Exhausted(attempt + 1) THEN "raise" ELSE "attempt"
    /\ UNCHANGED <<requested, force, cached, timeframe, loops, df, t_result>>

\* lines 107-112: ResponseError or another exception; break
AttemptBreaks ==
    /\ t_pc = "attempt"
    /\ \E e \in {"ResponseError", "Exception"} :
          /\ t_log' = Append(t_log, Attempted(loops, attempt, timeframe, e))
          /\ last_err' = e
    /\ t_pc' = "raise"
    /\ UNCHANGED <<requested, force, cached, timeframe, loops, attempt, df, t_result>>

\* mutant of InsideTry: the fallback call is retried as well
InsideTryAlways(n) == TRUE

\* fetch_trends, lines 135-140: the call of _fetch_with_retries inside the
\* try statement is the first one
InsideTry(n) == n = 1

\* line 113 raises last_err into fetch_trends's except clause: the retry loop
\* is called again with the fallback timeframe
Fallback ==
    /\ t_pc = "raise"
    /\ InsideTry(loops)
    /\ timeframe' = FallbackTimeframe
    /\ loops' = loops + 1
    /\ attempt' = 0
    /\ last_err' = ""
    /\ t_pc' = "attempt"
    /\ UNCHANGED <<requested, force, cached, df, t_log, t_result>>

\* line 113 raises last_err out of the fallback call: it leaves fetch_trends
Propagate ==
    /\ t_pc = "raise"
    /\ ~InsideTry(loops)
    /\ t_result' = "raised " \o last_err
    /\ t_pc' = "done"
    /\ UNCHANGED <<requested, force, cached, timeframe, loops, attempt, last_err,
                   df, t_log>>

\* lines 141-142: an empty frame
RaiseNoData ==
    /\ t_pc = "test_empty"
    /\ df.kind = "empty"
    /\ t_result' = "raised RuntimeError"
    /\ t_pc' = "done"
    /\ UNCHANGED <<requested, force, cached, timeframe, loops, attempt, last_err,
                   df, t_log>>

\* lines 143-150: the frame is written under the key of the requested
\* timeframe (a failure of the write is swallowed) and returned
StoreAndReturn ==
    /\ t_pc = "test_empty"
    /\ df.kind = "data"
    /\ \E written \in BOOLEAN :
          IF written
          THEN /\ cached' = [cached EXCEPT ![requested] = df.tf]
               /\ t_log' = Append(t_log, Stored(requested, df.tf))
          ELSE UNCHANGED <<cached, t_log>>
    /\ t_result' = "returned"
    /\ t_pc' = "done"
    /\ UNCHANGED <<requested, force, timeframe, loops, attempt, last_err, df>>

NextTrends ==
    \/ GetTopicMid /\ UNCHANGED <<varsGen, varsCli, varsSess, varsPypi>>
    \/ CacheHit /\ UNCHANGED <<varsGen, varsCli, varsSess, varsPypi, use_topic, memo>>
    \/ CacheMiss /\ UNCHANGED <<varsGen, varsCli, varsSess, varsPypi, use_topic, memo>>
    \/ AttemptReturns /\ UNCHANGED <<varsGen, varsCli, varsSess, varsPypi, use_topic, memo>>
    \/ AttemptTooManyRequests /\ UNCHANGED <<varsGen, varsCli, varsSess, varsPypi, use_topic, memo>>
    \/ AttemptBreaks /\ UNCHANGED <<varsGen, varsCli, varsSess, varsPypi, use_topic, memo>>
    \/ Fallback /\ UNCHANGED <<varsGen, varsCli, varsSess, varsPypi, use_topic, memo>>
    \/ Propagate /\ UNCHANGED <<varsGen, varsCli, varsSess, varsPypi, use_topic, memo>>
    \/ RaiseNoData /\ UNCHANGED <<varsGen, varsCli, varsSess, varsPypi, use_topic, memo>>
    \/ StoreAndReturn /\ UNCHANGED <<varsGen, varsCli, varsSess, varsPypi, use_topic, memo>>

SpecTrends == InitTrends /\ [][NextTrends]_vars

---------------------------------------------------------------------------
(* Properties of the adapter sessions *)

\* get_range is over: it returned its frame, or an exception left it
GetRangeOver == s_pc \in {"save_csv", "raised"}

\* the requests of the log sent for source a
RequestsOf(a) == SelectSeq(log, LAMBDA e : e.src = a /\ e.kind = "request")

\* C11: whenever get_range is over, its rows are as many as the buckets the
\* generator yielded, row i carries the label and the dates of bucket i, and
\* when every request failed the rows are all there, filled with zeros.
C11_RowPerBucket ==
    GetRangeOver =>
        /\ Len(rows) = Len(out)
        /\ \A i \in 1..Len(rows) :
              /\ i <= Len(out)
              /\ rows[i].period = out[i].label
              /\ rows[i].start_date = StrfYmd(out[i].start)
              /\ rows[i].end_date = StrfYmd(out[i].end)
        /\ (failures = Len(out) => \A i \in 1..Len(rows) : rows[i].metrics = 0)

\* C12: no failure of a request makes the per-bucket fetch function raise:
\* the only exception that ends a run comes after the table was saved, so
\* every bucket a request was sent for has its row.
C12_FetchNeverRaises ==
    s_pc = "raised" =>
        /\ \E k \in 1..Len(csv) : csv[k].source = adapter
        /\ Len(RequestsOf(adapter)) <= Len(rows)

\* the entries of the log that belong to source a
LogOf(a) == SelectSeq(log, LAMBDA e : e.src = a)

\* get_range of the running adapter has passed its credential test
PastCredentialTest == adapter # "" /\ s_pc \notin {"idle", "get_range"}

\* the rows so far are those of the buckets so far, all zero
ZeroRows ==
    /\ Len(rows) <= Len(out)
    /\ \A i \in 1..Len(rows) :
          i <= Len(out) /\ rows[i] = Row(out[i], 0)

\* C13 as the spec has it, the package registry among the adapters that need
\* a credential: with no credential set, a session of news, youtube, twitter
\* or packages sends no request and has only zero rows.
C13_CredentialledIncludingPackages ==
    (adapter \in {"news", "youtube", "twitter", "packages"} /\ env = {}) =>
        /\ RequestsOf(adapter) = <<>>
        /\ ZeroRows

\* C13, amended: news, youtube and twitter test their credential once, before
\* any request; when it is missing the session reports it once, sends no
\* request, takes no sleep, and get_range returns one zero row for every
\* bucket, never raising.  (packages reads no credential.)
C13_MissingCredentialZeroRows ==
    (adapter \in {"news", "youtube", "twitter"} /\ env = {} /\ PastCredentialTest) =>
        /\ LogOf(adapter) = <<Warned(adapter, 0)>>
        /\ ZeroRows
        /\ (s_pc \in {"to_csv", "save_csv"} =>
               Len(rows) = BucketCount(bucket_days, start_year, end_year))
        /\ (s_pc = "raised" => \E k \in 1..Len(csv) : csv[k].source = adapter)

C13_Witness ==
    /\ adapter = "youtube"
    /\ env = {}
    /\ s_pc = "save_csv"
    /\ Len(rows) = 4
    /\ rows[4].period = "2024-Q4"
    /\ rows[4].metrics = 0

\* the names of invoked
Invoked == {invoked[k] : k \in 1..Len(invoked)}

\* C14: an exception raised while one requested source is processed (for
\* example by fetch_trends) does not keep the other requested sources from
\* being processed: when the run has ended on such an exception, every
\* requested generic source was called all the same.
C14_FailureLeavesOtherSources ==
    cli_pc = "raised" => \A name \in sources \cap Adapters : name \in Invoked

\* C17: in a session, the request for a bucket after the first comes right
\* after the adapter's fixed sleep for the bucket before it, whether the
\* request for that bucket was answered, failed or was not sent: no two
\* requests follow each other without that sleep between them.
C17_SleepBetweenRequests ==
    \A k \in 1..Len(log) :
        (log[k].kind = "request" /\ log[k].i > 1) =>
            /\ k > 1
            /\ log[k - 1] = Slept(log[k].src, log[k].i - 1)
            /\ log[k - 1].ms = SleepMillis(log[k].src)

C17_Witness ==
    /\ adapter = "github"
    /\ Len(log) >= 4
    /\ log[1] = Requested("github", 1)
    /\ log[2] = Warned("github", 1)
    /\ log[3].kind = "sleep"
    /\ log[3].ms = 6000
    /\ log[4] = Requested("github", 2)

\* the table save_csv wrote for source a holds a line for every bucket
SessionComplete(a) ==
    \E j \in 1..Len(csv) :
        /\ csv[j].source = a
        /\ Len(csv[j].data) = BucketCount(bucket_days, start_year, end_year)

\* position of a name in generic_source_names
GenericIndex(a) == CHOOSE i \in 1..Len(generic_source_names) : generic_source_names[i] = a

\* C18: the requested sources are processed one at a time, in the order of
\* generic_source_names: when a source is called, the session of every source
\* called before it is complete (all its buckets are in its table); the log
\* never returns to an earlier source; and within a session the requests go
\* up through the buckets.
C18_OneSourceAtATime ==
    /\ \A k \in 1..Len(invoked) :
          /\ invoked[k] \in sources
          /\ (k > 1 => GenericIndex(invoked[k - 1]) < GenericIndex(invoked[k]))
          /\ (k < Len(invoked) => SessionComplete(invoked[k]))
    /\ (adapter # "" => invoked # <<>> /\ adapter = invoked[Len(invoked)])
    /\ \A k \in 2..Len(log) :
          IF log[k].src = log[k - 1].src
          THEN /\ log[k - 1].i <= log[k].i
               /\ (log[k].kind = "request" => log[k - 1].i < log[k].i)
          ELSE /\ GenericIndex(log[k - 1].src) < GenericIndex(log[k].src)
               /\ SessionComplete(log[k - 1].src)
    /\ \A k \in 1..Len(log) : log[k].src \in Invoked

C18_Witness ==
    /\ invoked = <<"arxiv", "github">>
    /\ s_pc = "sleep"
    /\ adapter = "github"
    /\ Len(rows) = 2
    /\ Len(RequestsOf("arxiv")) = 2
    /\ Len(RequestsOf("github")) = 2

\* the cells that are numbers
Numerals == {ToString(n) : n \in 0..1}

\* C19: every table written for a generic source has a header whose first
\* three columns are period, start_date, end_date, followed by numeric
\* metric columns, and exactly one data line per bucket, also when the
\* generator yields no bucket.
C19_CsvShape ==
    \A j \in 1..Len(csv) :
        LET t == csv[j]
        IN  /\ Len(t.header) > 3
            /\ SubSeq(t.header, 1, 3) = <<"period", "start_date", "end_date">>
            /\ Len(t.data) = BucketCount(bucket_days, start_year, end_year)
            /\ \A k \in 1..Len(t.data) :
                  /\ Len(t.data[k]) = Len(t.header)
                  /\ \A c \in 4..Len(t.data[k]) : t.data[k][c] \in Numerals

\* C20: within a session the rows stand in strictly ascending order of
\* their bucket's start date (each row carrying that date), and no two rows
\* have the same period label.
C20_RowsAscendingDistinct ==
    /\ Len(rows) <= Len(out)
    /\ \A i \in 1..Len(rows) :
          /\ i <= Len(out)
          /\ rows[i].start_date = StrfYmd(out[i].start)
          /\ (i > 1 => out[i - 1].start.ord < out[i].start.ord)
    /\ \A i \in 1..Len(rows) : \A j \in 1..Len(rows) :
          i < j => rows[i].period # rows[j].period

C20_Witness ==
    /\ adapter = "grants"
    /\ s_pc = "save_csv"
    /\ bucket = DaysSpec(100)
    /\ Len(rows) = 8
    /\ rows[1].period = "2024-01-01_2024-04-09"
    /\ rows[8].start_date = "2025-12-01"

---------------------------------------------------------------------------
(* Properties of fetch_trends *)

\* the requests of t_log, and those of the n-th call of _fetch_with_retries
TrendRequests == SelectSeq(t_log, LAMBDA e : e.kind = "request")
RequestsOfLoop(n) == SelectSeq(TrendRequests, LAMBDA e : e.loop = n)

\* C15: one call of _fetch_with_retries sends at most 4 requests (the first
\* and up to 3 retries); every request after the first follows a
\* TooManyRequests answer to the one before; and when the 4th fails as well
\* the call raises the last error and binds no value.
C15_AtMostFourAttempts ==
    /\ \A n \in 1..loops :
          LET reqs == RequestsOfLoop(n)
          IN  /\ Len(reqs) <= 4
              /\ \A k \in 1..Len(reqs) :
                    /\ reqs[k].attempt = k - 1
                    /\ (k > 1 => reqs[k - 1].outcome = "TooManyRequestsError")
              /\ (Len(reqs) = 4 /\ reqs[4].outcome \notin {"data", "empty"}
                     => /\ n < loops \/ t_pc \in {"raise", "done"}
                        /\ (n = loops => /\ last_err = reqs[4].outcome
                                         /\ df.kind = ""
                                         /\ t_result # "returned"))
    /\ (t_pc = "raise" => last_err # "")

C15_Witness ==
    /\ t_pc = "raise"
    /\ loops = 1
    /\ Len(RequestsOfLoop(1)) = 4
    /\ last_err = "TooManyRequestsError"

\* the first call of _fetch_with_retries raised
FirstLoopFailed ==
    LET reqs == RequestsOfLoop(1)
    IN  /\ reqs # <<>>
        /\ reqs[Len(reqs)].outcome \notin {"data", "empty"}
        /\ loops > 1 \/ t_pc = "done"

\* C16: when the retry loop for the requested timeframe is exhausted or
\* fails, fetch_trends runs the retry loop once more, and only once, with the
\* fallback timeframe; when that fails too the error leaves fetch_trends and
\* no cache file is written; one call sends at most 8 requests.
C16_OneFallback ==
    /\ loops <= 2
    /\ Len(TrendRequests) <= 8
    /\ \A k \in 1..Len(TrendRequests) :
          TrendRequests[k].tf = (IF TrendRequests[k].loop = 1 THEN requested
                                 ELSE FallbackTimeframe)
    /\ (FirstLoopFailed => loops = 2)
    /\ (loops = 2 => RequestsOfLoop(1) # <<>> /\
                     RequestsOfLoop(1)[Len(RequestsOfLoop(1))].outcome
                         \notin {"data", "empty"})
    /\ (t_pc = "done" /\ loops = 2 /\ FirstLoopFailed
           /\ RequestsOfLoop(2)[Len(RequestsOfLoop(2))].outcome \notin {"data", "empty"}
           => /\ t_result = "raised " \o last_err
              /\ \A k \in 1..Len(t_log) : t_log[k].kind # "write"
              /\ cached[requested] \in CacheStates \/ force)

C16_Witness ==
    /\ t_pc = "done"
    /\ loops = 2
    /\ Len(TrendRequests) = 8
    /\ t_result = "raised TooManyRequestsError"
    /\ requested = "all"

---------------------------------------------------------------------------
(* Properties of the result manifest and of the end of the run *)

\* the source was processed to its end: it was invoked and it is not the one
\* whose processing raised
SourceCompleted(n) ==
    \E i \in 1..Len(invoked) :
        invoked[i] = n /\ ~(i = Len(invoked) /\ cli_pc = "raised")

\* the manifest keys of one source
KeysOf(n) == {k \in results : k[1] = n}

\* C21: the manifest only grows: a completed source has exactly the keys
\* '<source>_<kind>' for the kinds of the requested formats and no other, and
\* a step that processes a source adds keys of that source only and removes
\* none
C21_ManifestGrows ==
    /\ [](\A n \in valid_sources :
            SourceCompleted(n) => KeysOf(n) = {<<n, f>> : f \in formats})
    /\ [][/\ results \subseteq results'
          /\ \A k \in results' \ results :
                 /\ invoked' # invoked
                 /\ k[1] = invoked'[Len(invoked')]]_vars

\* two sources completed in a run that did not ask for the csv format, and the
\* manifest holds keys of both
C21_Witness ==
    /\ cli_pc = "exit"
    /\ exit_code = 0
    /\ Len(invoked) = 2
    /\ "csv" \notin formats
    /\ KeysOf(invoked[1]) # {}
    /\ KeysOf(invoked[2]) # {}

\* C25: a run that ends normally with html among the formats and auto-open
\* not suppressed has opened exactly one chart, the first HTML artifact the
\* manifest recorded, whichever source produced it; with --no-open or
\* without html nothing is opened; and nothing is opened before the end
C25_FirstChartOpened ==
    /\ cli_pc # "exit" => opened = <<>>
    /\ cli_pc = "exit" /\ exit_code = 0 =>
           IF ~argv.no_open /\ "html" \in formats
           THEN \E i \in 1..Len(invoked) :
                    /\ <<invoked[i], "html">> \in results
                    /\ \A j \in 1..(i - 1) : <<invoked[j], "html">> \notin results
                    /\ opened = << <<invoked[i], "html">> >>
           ELSE opened = <<>>

---------------------------------------------------------------------------
(* Properties of year_to_bucket_count *)

\* C22: for start_year <= end_year and every width of at least one day,
\* year_to_bucket_count gives the number of buckets generate_date_buckets
\* yields for the same arguments, the widths 30, 90, 365 and 366 included
C22_CountMatchesGenerator ==
    (Done /\ start_year <= end_year) =>
        year_to_bucket_count(start_year, end_year, bucket_days) = Len(out)

---------------------------------------------------------------------------
(* More properties of the adapters' sessions *)

\* the log holds the entry
Logged(e) == \E i \in 1..Len(log) : log[i] = e

\* C23: every bucket whose request failed and whose row was degraded to zero
\* metrics has a warning of the adapter for that bucket in the log: no
\* bucket is degraded silently
C23_DegradedRowsWarned ==
    \A k \in 1..Len(rows) :
        (rows[k].metrics = 0 /\ Logged(Requested(adapter, k)))
            => Logged(Warned(adapter, k))

---------------------------------------------------------------------------
(* More properties of fetch_trends and _fetch_with_retries *)

\* the failures that are not a rate limit
BreakingErrors == {"ResponseError", "Exception"}

\* C24: a request that fails with a ResponseError or another exception is the
\* last of its call of _fetch_with_retries: no sleep and no further attempt
\* of that call follows it, and the error is raised to the caller (which
\* falls back once, or lets it leave fetch_trends)
C24_OnlyRateLimitRetries ==
    \A i \in 1..Len(t_log) :
        (t_log[i].kind = "request" /\ t_log[i].outcome \in BreakingErrors) =>
            /\ i < Len(t_log) =>
                  /\ t_log[i + 1].kind = "request"
                  /\ t_log[i + 1].loop = t_log[i].loop + 1
                  /\ t_log[i].loop = 1
            /\ i = Len(t_log) =>
                  \/ t_pc = "raise" /\ last_err = t_log[i].outcome
                                    /\ loops = t_log[i].loop
                  \/ t_pc = "attempt" /\ loops = t_log[i].loop + 1 /\ attempt = 0
                  \/ t_pc = "done" /\ t_result = "raised " \o t_log[i].outcome

\* the first call retried once and then met a ResponseError; the fallback
\* call met one at once, and it left fetch_trends
C24_Witness ==
    /\ t_pc = "done"
    /\ t_result = "raised ResponseError"
    /\ Len(RequestsOfLoop(1)) = 2
    /\ Len(RequestsOfLoop(2)) = 1
    /\ RequestsOfLoop(1)[2].outcome = "ResponseError"

\* C28: every backoff sleep of _fetch_with_retries is followed by another
\* attempt of the same call: after the last permitted attempt the error is
\* raised without a sleep
C28_SleepThenRetry ==
    \A i \in 2..Len(t_log) :
        t_log[i] = Waited("429") =>
            /\ i < Len(t_log) =>
                  /\ t_log[i + 1].kind = "request"
                  /\ t_log[i + 1].loop = t_log[i - 1].loop
            /\ i = Len(t_log) => t_pc = "attempt" /\ loops = t_log[i - 1].loop

\* no cache file was written by this call so far
NoWrite == \A i \in 1..Len(t_log) : t_log[i].kind # "write"

\* fetch_trends is past its cache test
PastCacheTest == t_pc \notin {"idle", "topic", "cache_test"}

\* the cache test found a usable file and force was not set
Hit == PastCacheTest /\ NoWrite /\ ~force /\ cached[requested] \notin CacheStates

C27_CacheKeyedByTimeframe ==
    /\ \A tf \in Timeframes : cached[tf] \in CacheStates \cup {tf}
    /\ (t_result = "returned" /\ NoWrite /\ PastCacheTest /\ Hit) => df.tf = requested

---------------------------------------------------------------------------
(* Properties of the files a generic source leaves *)

\* the CSV files among those written inside the output directories
CsvFilesOf(a) == {f \in files : f[1] = a /\ f[2] = "csv"}

\* C30: get_range writes no file outside the source's output directory, and a
\* source that process_generic_source has saved has its table in exactly one
\* CSV file, the one in outputs/<term_slug>/<source>
C30_OneCsvFile ==
    /\ cwd = {}
    /\ \A i \in 1..Len(csv) :
          /\ CsvFilesOf(csv[i].source) = {<<csv[i].source, "csv">>}
          /\ SourceDir(csv[i].source) \in dirs

---------------------------------------------------------------------------
(* Properties of the package adapter's download counts *)

\* the sum of the metrics of the rows
RECURSIVE SumMetrics(_)
SumMetrics(data) ==
    IF data = <<>> THEN 0 ELSE Head(data).metrics + SumMetrics(Tail(data))

\* the entry has a date, and the day lies between Jan 1 of start_year and
\* Dec 31 of end_year
InRange(entry) ==
    /\ entry.date # <<>>
    /\ StrptimeYmdDate(entry.date).ok
    /\ StrptimeYmdDate(entry.date).val.ord
           \in Ymd2Ord(start_year, 1, 1)..Ymd2Ord(end_year, 12, 31)

\* the downloads of the entries in range
RECURSIVE TotalInRange(_)
TotalInRange(data) ==
    IF data = <<>> THEN 0
    ELSE (IF InRange(Head(data)) THEN Head(data).downloads ELSE 0)
             + TotalInRange(Tail(data))

\* the buckets whose days include the day of the entry
BucketsOf(entry) ==
    {i \in 1..Len(out) :
        StrptimeYmdDate(entry.date).val.ord \in out[i].start.ord..out[i].end.ord}

\* C29: when the loop of get_range is over, every dated entry of the response
\* in range has its day in exactly one bucket, the row of a bucket holds the
\* downloads of the entries of its days, and the rows add up to the downloads
\* of the entries in range, whatever the width
C29_DownloadsCountedOnce ==
    s_pc \in {"to_csv", "save_csv"} =>
        /\ Len(rows) = Len(out)
        /\ \A k \in 1..Len(response) :
               InRange(response[k]) => Cardinality(BucketsOf(response[k])) = 1
        /\ \A i \in 1..Len(rows) :
               rows[i].metrics =
                   SumMetrics([k \in 1..Len(response) |->
                       [metrics |-> IF InRange(response[k]) /\ i \in BucketsOf(response[k])
                                    THEN response[k].downloads ELSE 0]])
        /\ SumMetrics(rows) = TotalInRange(response)

\* the whole list of entries over the two years 2024-2025 in windows of 100
\* days: the session is over and the rows hold every download in range
C29_Witness ==
    /\ s_pc = "save_csv"
    /\ bucket = DaysSpec(100)
    /\ start_year = 2024
    /\ end_year = 2025
    /\ response = PypiEntries
    /\ Len(rows) = 8
    /\ rows[1].metrics = 2 + 4 + 16
    /\ rows[2].metrics = 32 + 1024
    /\ SumMetrics(rows) > rows[1].metrics + rows[2].metrics

=========================================================================
